---- MODULE Spec2Model ----
(***************************************************************************)
(* Decorator metadata and reflection (Zendrex/annotate).                   *)
(*                                                                         *)
(* The model follows src/src/lib/metadata.ts (store adapter over           *)
(* reflect-metadata), src/src/lib/factories.ts (decorator and interceptor  *)
(* factories) and src/src/lib/reflector.ts (Reflector).                    *)
(*                                                                         *)
(* Classes form a chain: class c extends class c-1, class 1 extends        *)
(* Object.  Every class has a constructor object and a prototype object;   *)
(* an object's own properties are an ordered list of (name, descriptor),   *)
(* in creation order, as Object.getOwnPropertyNames reports them.          *)
(***************************************************************************)
EXTENDS Integers, Sequences, FiniteSets, TLC

VARIABLES
    keyCounter,  \* factories.ts: let keyCounter
    factory,     \* the decorator factory in use: [kind, key, composeFn]
    slots,       \* own properties of every object: [Objects -> Seq([name, desc])]
    store,       \* reflect-metadata: <<key, owner, member>> :> stored value
    applied,     \* history: <<key, owner, propertyKey, index>> :> Seq(args), in application order
    invocations, \* history: the interceptor callback's invocations, in order
    instances,   \* own properties of every instance: [Instances -> Seq([name, desc])]
    weak,        \* the WeakMap of every toAccessor conversion, in creation order
    assigned,    \* history: <<receiver, name>> :> the value last assigned through receiver
    observed,    \* history: the caller's most recent query or property access
    calls,       \* appendMetadata calls taken step by step: [pc, value, propertyKey, array, after]
    arrays       \* array objects by identity: contents of array number i

vars == <<keyCounter, factory, slots, store, applied, invocations, instances, weak, assigned,
          observed, calls, arrays>>

\* the state of instances and accessors, and what the caller last observed
accessorVars == <<instances, weak, assigned, observed>>

\* the state of appendMetadata calls taken step by step
appendVars == <<calls, arrays>>

\* nothing observed yet
NothingObserved == [op |-> "none"]

----------------------------------------------------------------------------
(* Bounds *)

\* decorator applications in one behaviour
MaxApplied == 2

\* classes in the inheritance chain: class 3 extends class 2 extends class 1
Classes == {1, 2, 3}

\* member names; "" is the empty string, a legal member name
Names == {"m", ""}

\* zero-based parameter indexes
Indexes == {0, 1}

\* decorator argument lists
OneArg == {<<"a">>, <<"b">>}

----------------------------------------------------------------------------
(* Objects and property descriptors *)

Ctor(c) == [side |-> "ctor", cls |-> c]
Proto(c) == [side |-> "proto", cls |-> c]
Objects == {Ctor(c) : c \in Classes} \cup {Proto(c) : c \in Classes}

\* Object.prototype, where the prototype walk stops
ObjectPrototype == [side |-> "proto", cls |-> 0]

\* instance i of class c
Inst(c, i) == [side |-> "inst", cls |-> c, id |-> i]

\* Object.getPrototypeOf: class c extends class c-1; an instance of c inherits from c's prototype
getPrototypeOf(o) ==
    IF o.side = "inst" THEN [side |-> "proto", cls |-> o.cls]
    ELSE [side |-> o.side, cls |-> o.cls - 1]

\* the propertyKey of a call that passes none
Undefined == "undefined"

\* JavaScript values held in descriptors
UndefinedValue == [type |-> "undefined"]
Str(s) == [type |-> "string", s |-> s]
\* the function a class body declares for member n of object o; its name is n
Fn(o, n) == [type |-> "function", name |-> n, body |-> <<o, n>>]

\* data descriptor {value}
DataDesc(v) == [value |-> v, get |-> UndefinedValue, set |-> UndefinedValue]
\* accessor descriptor {get, set}
AccessorDesc(g, s) == [value |-> UndefinedValue, get |-> g, set |-> s]
\* what Object.getOwnPropertyDescriptor returns for a missing property
NoDesc == [value |-> [type |-> "nodesc"], get |-> UndefinedValue, set |-> UndefinedValue]

RECURSIVE IndexOfName(_, _, _)
IndexOfName(props, n, i) ==
    IF i > Len(props) THEN 0
    ELSE IF props[i].name = n THEN i
    ELSE IndexOfName(props, n, i + 1)

hasOwn(sl, o, n) == IndexOfName(sl[o], n, 1) # 0

getOwnPropertyDescriptor(sl, o, n) ==
    LET i == IndexOfName(sl[o], n, 1)
    IN  IF i = 0 THEN NoDesc ELSE sl[o][i].desc

\* Object.defineProperty: an existing key keeps its position, a new key goes last
defineProperty(sl, o, n, d) ==
    LET i == IndexOfName(sl[o], n, 1)
    IN  IF i = 0
        THEN [sl EXCEPT ![o] = Append(@, [name |-> n, desc |-> d])]
        ELSE [sl EXCEPT ![o][i].desc = d]

\* typeof desc.value === "function", false for a missing descriptor
IsMethodDesc(d) == d.value.type = "function"

----------------------------------------------------------------------------
(* metadata.ts *)

\* `propertyKey ? ... : ...` : undefined and "" are falsy
Truthy(propertyKey) == propertyKey # Undefined /\ propertyKey # ""

\* an array value and a Map value (entries in insertion order)
ArrayValue(items) == [kind |-> "array", items |-> items]
MapValue(entries) == [kind |-> "map", items |-> entries]
NoValue == [kind |-> "undefined", items |-> <<>>]

\* faulty variant: the lookup ignores the key and returns what any key stored there
ReflectGetOwnMetadataAnyKey(st, key, target, propertyKey) ==
    IF \E a \in DOMAIN st : a[2] = target /\ a[3] = propertyKey
    THEN st[CHOOSE a \in DOMAIN st : a[2] = target /\ a[3] = propertyKey]
    ELSE NoValue

\* Reflect.getOwnMetadata(key, target, propertyKey?)
ReflectGetOwnMetadata(st, key, target, propertyKey) ==
    IF <<key, target, propertyKey>> \in DOMAIN st
    THEN st[<<key, target, propertyKey>>]
    ELSE NoValue

\* Reflect.defineMetadata(key, value, target, propertyKey?)
ReflectDefineMetadata(st, key, value, target, propertyKey) ==
    [a \in DOMAIN st \cup {<<key, target, propertyKey>>} |->
        IF a = <<key, target, propertyKey>> THEN value ELSE st[a]]

\* Reflect.getMetadata(key, target, propertyKey?): own metadata, else the prototype's
RECURSIVE ReflectGetMetadata(_, _, _, _)
ReflectGetMetadata(st, key, target, propertyKey) ==
    IF target.cls = 0 THEN NoValue
    ELSE IF <<key, target, propertyKey>> \in DOMAIN st
         THEN st[<<key, target, propertyKey>>]
         ELSE ReflectGetMetadata(st, key, getPrototypeOf(target), propertyKey)

getMetadata(st, key, target, propertyKey) ==
    IF Truthy(propertyKey)
    THEN ReflectGetMetadata(st, key, target, propertyKey)
    ELSE ReflectGetMetadata(st, key, target, Undefined)

\* faulty variant: the own lookup falls back to the prototype chain
getOwnMetadataWalksChain(st, key, target, propertyKey) ==
    getMetadata(st, key, target, propertyKey)

getOwnMetadata(st, key, target, propertyKey) ==
    IF Truthy(propertyKey)
    THEN ReflectGetOwnMetadata(st, key, target, propertyKey)
    ELSE ReflectGetOwnMetadata(st, key, target, Undefined)

\* `getOwnMetadata(...) ?? []`
getMetadataArray(st, key, target, propertyKey) ==
    LET v == getOwnMetadata(st, key, target, propertyKey)
    IN  IF v.kind = "undefined" THEN ArrayValue(<<>>) ELSE v

\* `getOwnMetadata(...) ?? new Map()`
getParameterMap(st, key, target, propertyKey) ==
    LET v == getOwnMetadata(st, key, target, propertyKey)
    IN  IF v.kind = "undefined" THEN MapValue(<<>>) ELSE v

defineMetadata(st, key, value, target, propertyKey) ==
    IF Truthy(propertyKey)
    THEN ReflectDefineMetadata(st, key, value, target, propertyKey)
    ELSE ReflectDefineMetadata(st, key, value, target, Undefined)

\* faulty variant: the new value goes first (unshift for push)
appendMetadataUnshift(st, key, target, value, propertyKey) ==
    LET array == getMetadataArray(st, key, target, propertyKey)
    IN  defineMetadata(st, key, ArrayValue(<<value>> \o array.items), target, propertyKey)

appendMetadata(st, key, target, value, propertyKey) ==
    LET array == getMetadataArray(st, key, target, propertyKey)
    IN  defineMetadata(st, key, ArrayValue(Append(array.items, value)), target, propertyKey)

\* Array identity.  getMetadataArray returns the stored array object itself when the
\* address is set, and appendMetadata pushes onto that object and stores the same
\* object again: one array object lives at an address, named here by the address, and
\* whoever holds it sees, at any later time, what the store holds there.
ArrayRef(key, target, propertyKey) ==
    <<key, target, IF Truthy(propertyKey) THEN propertyKey ELSE Undefined>>
ContentsNow(st, ref) == IF ref \in DOMAIN st THEN st[ref] ELSE ArrayValue(<<>>)

setParameterMap(st, key, target, map, propertyKey) ==
    defineMetadata(st, key, map, target, propertyKey)

----------------------------------------------------------------------------
(* factories.ts: value computation, keys, placeholder slots *)

\* the caller's compose transform, an injective function of the whole argument list
ComposeFn(args) ==
    CASE args = <<>> -> "f()"
      [] args = <<"a">> -> "f(a)"
      [] args = <<"b">> -> "f(b)"
      [] args = <<"a", "b">> -> "f(a,b)"
      [] args = <<"b", "a">> -> "f(b,a)"
      [] OTHER -> "f(..)"

\* args[0], undefined for an empty argument list
FirstArg(args) == IF Len(args) = 0 THEN Undefined ELSE args[1]

\* faulty variant: without a transform the last argument is kept instead of the first
composeLastArg(args, fn) ==
    IF fn = "fn" THEN ComposeFn(args)
    ELSE IF Len(args) = 0 THEN Undefined ELSE args[Len(args)]

\* `fn ? fn(...args) : args[0]`; fn is "fn" when a transform was supplied, else "none"
compose(args, fn) == IF fn = "fn" THEN ComposeFn(args) ELSE FirstArg(args)

\* generateKey: Symbol(`decorator:${keyCounter}`) after the increment, named by its number
generateKey(counter) == counter + 1

ensureProperty(sl, target, key) ==
    IF hasOwn(sl, target, key) THEN sl
    ELSE defineProperty(sl, target, key, DataDesc(UndefinedValue))

\* create*Decorator(composeFn?): the factory, bound to a fresh key
createClassDecorator(counter, composeFn) ==
    [kind |-> "class", key |-> generateKey(counter), composeFn |-> composeFn]
createMethodDecorator(counter, composeFn) ==
    [kind |-> "method", key |-> generateKey(counter), composeFn |-> composeFn]
createPropertyDecorator(counter, composeFn) ==
    [kind |-> "property", key |-> generateKey(counter), composeFn |-> composeFn]
createParameterDecorator(counter, composeFn) ==
    [kind |-> "parameter", key |-> generateKey(counter), composeFn |-> composeFn]

\* the parameter decorator's body: map.get(index) ?? [], push, map.set, setParameterMap
RECURSIVE IndexOfEntry(_, _, _)
IndexOfEntry(entries, index, i) ==
    IF i > Len(entries) THEN 0
    ELSE IF entries[i].index = index THEN i
    ELSE IndexOfEntry(entries, index, i + 1)

MapGet(entries, index) ==
    LET i == IndexOfEntry(entries, index, 1)
    IN  IF i = 0 THEN <<>> ELSE entries[i].metadata

\* Map.set: an existing key keeps its position, a new key goes last
MapSet(entries, index, metadata) ==
    LET i == IndexOfEntry(entries, index, 1)
    IN  IF i = 0
        THEN Append(entries, [index |-> index, metadata |-> metadata])
        ELSE [entries EXCEPT ![i].metadata = metadata]

parameterDecorator(st, f, args, target, propertyKey, parameterIndex) ==
    LET map == getParameterMap(st, f.key, target, propertyKey)
        existing == MapGet(map.items, parameterIndex)
        pushed == Append(existing, compose(args, f.composeFn))
    IN  setParameterMap(st, f.key, target, MapValue(MapSet(map.items, parameterIndex, pushed)), propertyKey)

----------------------------------------------------------------------------
(* History of applications, kept beside the program state *)

Site(key, owner, propertyKey, index) == <<key, owner, propertyKey, index>>

AppliedAt(site) == IF site \in DOMAIN applied THEN applied[site] ELSE <<>>

Record(site, args) ==
    [s \in DOMAIN applied \cup {site} |->
        IF s = site THEN Append(AppliedAt(site), args) ELSE applied[s]]

RECURSIVE SumLen(_, _)
SumLen(f, S) ==
    IF S = {} THEN 0
    ELSE LET s == CHOOSE x \in S : TRUE
         IN  Len(f[s]) + SumLen(f, S \ {s})

NumApplied == SumLen(applied, DOMAIN applied)

----------------------------------------------------------------------------
(* reflector.ts: Reflector over (slots, store); ctor = Ctor(c), proto = Proto(c) *)

\* `metadata.length === 0` and `metadata.length > 0`; a Map has no length
LengthIsZero(v) == v.kind = "array" /\ Len(v.items) = 0
LengthPositive(v) == v.kind = "array" /\ Len(v.items) > 0

IsReservedKey(k) == k = "constructor" \/ k = "prototype"

RECURSIVE OwnKeysFrom(_, _)
OwnKeysFrom(props, i) ==
    IF i > Len(props) THEN <<>>
    ELSE IF IsReservedKey(props[i].name) THEN OwnKeysFrom(props, i + 1)
    ELSE <<props[i].name>> \o OwnKeysFrom(props, i + 1)

getOwnKeys(sl, target) == OwnKeysFrom(sl[target], 1)

RECURSIVE WithTarget(_, _, _)
WithTarget(target, keys, i) ==
    IF i > Len(keys) THEN <<>>
    ELSE <<[target |-> target, name |-> keys[i]]>> \o WithTarget(target, keys, i + 1)

\* faulty variant: only the starting object's own keys, no walk
getKeysWithTargetOwnOnly(sl, current) ==
    IF current = ObjectPrototype THEN <<>>
    ELSE WithTarget(current, getOwnKeys(sl, current), 1)

RECURSIVE getKeysWithTarget(_, _)
getKeysWithTarget(sl, current) ==
    IF current = ObjectPrototype THEN <<>>
    ELSE WithTarget(current, getOwnKeys(sl, current), 1)
            \o getKeysWithTarget(sl, getPrototypeOf(current))

ReflectClass(st, c, key) ==
    LET metadata == getMetadataArray(st, key, Ctor(c), Undefined)
    IN  IF LengthIsZero(metadata) THEN <<>>
        ELSE <<[kind |-> "class", name |-> "constructor", metadata |-> metadata, target |-> Ctor(c)]>>

MethodItem(name, metadata, desc) ==
    [kind |-> "method", name |-> name, metadata |-> metadata, target |-> desc.value]

\* faulty variant: a name already returned at a nearer level is visited again
RECURSIVE InstanceMethodsRevisits(_, _, _, _, _, _)
InstanceMethodsRevisits(sl, st, key, kt, i, seen) ==
    IF i > Len(kt) THEN <<>>
    ELSE LET target == kt[i].target
             name == kt[i].name
             desc == getOwnPropertyDescriptor(sl, target, name)
             metadata == getMetadataArray(st, key, target, name)
         IN  IF IsMethodDesc(desc) /\ LengthPositive(metadata)
             THEN <<MethodItem(name, metadata, desc)>>
                     \o InstanceMethodsRevisits(sl, st, key, kt, i + 1, seen)
             ELSE InstanceMethodsRevisits(sl, st, key, kt, i + 1, seen)

\* faulty variant: a non-callable declaration at a nearer level hides the name
RECURSIVE InstanceMethodsHiddenByFields(_, _, _, _, _, _)
InstanceMethodsHiddenByFields(sl, st, key, kt, i, seen) ==
    IF i > Len(kt) THEN <<>>
    ELSE LET target == kt[i].target
             name == kt[i].name
             desc == getOwnPropertyDescriptor(sl, target, name)
             metadata == getMetadataArray(st, key, target, name)
         IN  IF name \in seen THEN InstanceMethodsHiddenByFields(sl, st, key, kt, i + 1, seen)
             ELSE IF ~IsMethodDesc(desc)
                  THEN InstanceMethodsHiddenByFields(sl, st, key, kt, i + 1, seen \cup {name})
             ELSE IF LengthPositive(metadata)
                  THEN <<MethodItem(name, metadata, desc)>>
                          \o InstanceMethodsHiddenByFields(sl, st, key, kt, i + 1, seen \cup {name})
                  ELSE InstanceMethodsHiddenByFields(sl, st, key, kt, i + 1, seen)

\* the loop over getKeysWithTarget(this.proto) in methods()
RECURSIVE InstanceMethods(_, _, _, _, _, _)
InstanceMethods(sl, st, key, kt, i, seen) ==
    IF i > Len(kt) THEN <<>>
    ELSE LET target == kt[i].target
             name == kt[i].name
             desc == getOwnPropertyDescriptor(sl, target, name)
             metadata == getMetadataArray(st, key, target, name)
         IN  IF name \in seen THEN InstanceMethods(sl, st, key, kt, i + 1, seen)
             ELSE IF ~IsMethodDesc(desc) THEN InstanceMethods(sl, st, key, kt, i + 1, seen)
             ELSE IF LengthPositive(metadata)
                  THEN <<MethodItem(name, metadata, desc)>>
                          \o InstanceMethods(sl, st, key, kt, i + 1, seen \cup {name})
                  ELSE InstanceMethods(sl, st, key, kt, i + 1, seen)

\* faulty variant: after the class's own static keys the ancestors' are visited too
RECURSIVE StaticMethodsWalksAncestors(_, _, _, _, _, _)
StaticMethodsWalksAncestors(sl, st, key, ctor, keys, i) ==
    IF i > Len(keys)
    THEN IF ctor.cls > 1
         THEN StaticMethodsWalksAncestors(sl, st, key, getPrototypeOf(ctor),
                                          getOwnKeys(sl, getPrototypeOf(ctor)), 1)
         ELSE <<>>
    ELSE LET name == keys[i]
             desc == getOwnPropertyDescriptor(sl, ctor, name)
             metadata == getMetadataArray(st, key, ctor, name)
         IN  IF IsMethodDesc(desc) /\ LengthPositive(metadata)
             THEN <<MethodItem(name, metadata, desc)>>
                     \o StaticMethodsWalksAncestors(sl, st, key, ctor, keys, i + 1)
             ELSE StaticMethodsWalksAncestors(sl, st, key, ctor, keys, i + 1)

\* the loop over getOwnKeys(this.ctor) in methods()
RECURSIVE StaticMethods(_, _, _, _, _, _)
StaticMethods(sl, st, key, ctor, keys, i) ==
    IF i > Len(keys) THEN <<>>
    ELSE LET name == keys[i]
             desc == getOwnPropertyDescriptor(sl, ctor, name)
             metadata == getMetadataArray(st, key, ctor, name)
         IN  IF IsMethodDesc(desc) /\ LengthPositive(metadata)
             THEN <<MethodItem(name, metadata, desc)>> \o StaticMethods(sl, st, key, ctor, keys, i + 1)
             ELSE StaticMethods(sl, st, key, ctor, keys, i + 1)

ReflectMethods(sl, st, c, key) ==
    InstanceMethods(sl, st, key, getKeysWithTarget(sl, Proto(c)), 1, {})
        \o StaticMethods(sl, st, key, Ctor(c), getOwnKeys(sl, Ctor(c)), 1)

PropertyItem(name, metadata) == [kind |-> "property", name |-> name, metadata |-> metadata]

\* the loop over getKeysWithTarget(this.proto) in properties()
RECURSIVE InstanceProperties(_, _, _, _, _, _)
InstanceProperties(sl, st, key, kt, i, seen) ==
    IF i > Len(kt) THEN <<>>
    ELSE LET target == kt[i].target
             name == kt[i].name
             desc == getOwnPropertyDescriptor(sl, target, name)
             metadata == getMetadataArray(st, key, target, name)
         IN  IF name \in seen THEN InstanceProperties(sl, st, key, kt, i + 1, seen)
             ELSE IF IsMethodDesc(desc) THEN InstanceProperties(sl, st, key, kt, i + 1, seen)
             ELSE IF LengthPositive(metadata)
                  THEN <<PropertyItem(name, metadata)>>
                          \o InstanceProperties(sl, st, key, kt, i + 1, seen \cup {name})
                  ELSE InstanceProperties(sl, st, key, kt, i + 1, seen)

\* the loop over getOwnKeys(this.ctor) in properties()
RECURSIVE StaticProperties(_, _, _, _, _, _)
StaticProperties(sl, st, key, ctor, keys, i) ==
    IF i > Len(keys) THEN <<>>
    ELSE LET name == keys[i]
             desc == getOwnPropertyDescriptor(sl, ctor, name)
             metadata == getMetadataArray(st, key, ctor, name)
         IN  IF ~IsMethodDesc(desc) /\ LengthPositive(metadata)
             THEN <<PropertyItem(name, metadata)>> \o StaticProperties(sl, st, key, ctor, keys, i + 1)
             ELSE StaticProperties(sl, st, key, ctor, keys, i + 1)

ReflectProperties(sl, st, c, key) ==
    InstanceProperties(sl, st, key, getKeysWithTarget(sl, Proto(c)), 1, {})
        \o StaticProperties(sl, st, key, Ctor(c), getOwnKeys(sl, Ctor(c)), 1)

ParameterItem(name, metadata, index) ==
    [kind |-> "parameter", name |-> name, metadata |-> ArrayValue(metadata), parameterIndex |-> index]

\* `for (const [index, metadata] of map) if (metadata.length > 0) results.push(...)`
RECURSIVE MapItems(_, _, _)
MapItems(name, entries, i) ==
    IF i > Len(entries) THEN <<>>
    ELSE IF Len(entries[i].metadata) > 0
         THEN <<ParameterItem(name, entries[i].metadata, entries[i].index)>> \o MapItems(name, entries, i + 1)
         ELSE MapItems(name, entries, i + 1)

\* `map instanceof Map`
IsMap(v) == v.kind = "map"

ConstructorParameters(st, c, key) ==
    LET ctorMap == getParameterMap(st, key, Ctor(c), Undefined)
    IN  IF IsMap(ctorMap) THEN MapItems("constructor", ctorMap.items, 1) ELSE <<>>

\* faulty variant: a name whose entries were returned at a nearer level is visited again
RECURSIVE InstanceParametersRevisits(_, _, _, _, _)
InstanceParametersRevisits(st, key, kt, i, seenParams) ==
    IF i > Len(kt) THEN <<>>
    ELSE LET target == kt[i].target
             name == kt[i].name
             map == getParameterMap(st, key, target, name)
             found == IF IsMap(map) THEN MapItems(name, map.items, 1) ELSE <<>>
         IN  found \o InstanceParametersRevisits(st, key, kt, i + 1, seenParams)

\* the loop over getKeysWithTarget(this.proto) in parameters()
RECURSIVE InstanceParameters(_, _, _, _, _)
InstanceParameters(st, key, kt, i, seenParams) ==
    IF i > Len(kt) THEN <<>>
    ELSE LET target == kt[i].target
             name == kt[i].name
             map == getParameterMap(st, key, target, name)
             found == IF IsMap(map) THEN MapItems(name, map.items, 1) ELSE <<>>
         IN  IF name \in seenParams THEN InstanceParameters(st, key, kt, i + 1, seenParams)
             ELSE IF Len(found) > 0
                  THEN found \o InstanceParameters(st, key, kt, i + 1, seenParams \cup {name})
                  ELSE InstanceParameters(st, key, kt, i + 1, seenParams)

\* the loop over getOwnKeys(this.ctor) in parameters()
RECURSIVE StaticParameters(_, _, _, _, _)
StaticParameters(st, key, ctor, keys, i) ==
    IF i > Len(keys) THEN <<>>
    ELSE LET map == getParameterMap(st, key, ctor, keys[i])
         IN  (IF IsMap(map) THEN MapItems(keys[i], map.items, 1) ELSE <<>>)
                \o StaticParameters(st, key, ctor, keys, i + 1)

ReflectParameters(sl, st, c, key) ==
    ConstructorParameters(st, c, key)
        \o InstanceParameters(st, key, getKeysWithTarget(sl, Proto(c)), 1, {})
        \o StaticParameters(st, key, Ctor(c), getOwnKeys(sl, Ctor(c)), 1)

\* faulty variant: the property items come before the method items
ReflectAllPropertiesFirst(sl, st, c, key) ==
    ReflectClass(st, c, key) \o ReflectProperties(sl, st, c, key)
        \o ReflectMethods(sl, st, c, key) \o ReflectParameters(sl, st, c, key)

ReflectAll(sl, st, c, key) ==
    ReflectClass(st, c, key) \o ReflectMethods(sl, st, c, key)
        \o ReflectProperties(sl, st, c, key) \o ReflectParameters(sl, st, c, key)

----------------------------------------------------------------------------
(* reflector.ts: ScopedReflectorImpl, and the factories' reflection shortcuts *)

\* createScopedReflector(target, key): a Reflector for the class, bound to the key
createScopedReflector(c, key) == [target |-> c, key |-> key]

ScopedAll(sl, st, scoped) == ReflectAll(sl, st, scoped.target, scoped.key)
ScopedClass(sl, st, scoped) == ReflectClass(st, scoped.target, scoped.key)
ScopedMethods(sl, st, scoped) == ReflectMethods(sl, st, scoped.target, scoped.key)

\* faulty variant: properties() answers with the method items
ScopedPropertiesAnswersMethods(sl, st, scoped) ==
    ReflectMethods(sl, st, scoped.target, scoped.key)

ScopedProperties(sl, st, scoped) == ReflectProperties(sl, st, scoped.target, scoped.key)
ScopedParameters(sl, st, scoped) == ReflectParameters(sl, st, scoped.target, scoped.key)

\* F.reflect(target)
FactoryReflect(f, c) == createScopedReflector(c, f.key)

\* F.class(target), F.methods(target), F.properties(target) or F.parameters(target),
\* whichever the factory's kind provides
FactoryShortcut(sl, st, f, c) ==
    CASE f.kind = "class" -> ScopedClass(sl, st, createScopedReflector(c, f.key))
      [] f.kind \in {"method", "methodInterceptor"} ->
            ScopedMethods(sl, st, createScopedReflector(c, f.key))
      [] f.kind \in {"property", "propertyInterceptor"} ->
            ScopedProperties(sl, st, createScopedReflector(c, f.key))
      [] f.kind = "parameter" -> ScopedParameters(sl, st, createScopedReflector(c, f.key))

----------------------------------------------------------------------------
(* Class declarations: the state a class body leaves before decorators run *)

\* the order in which a class body lists its members
NameOrder == <<"m", "">>

RECURSIVE DeclaredMethods(_, _, _)
DeclaredMethods(o, declared, i) ==
    IF i > Len(NameOrder) THEN <<>>
    ELSE IF <<o, NameOrder[i]>> \in declared
         THEN <<[name |-> NameOrder[i], desc |-> DataDesc(Fn(o, NameOrder[i]))]>>
                 \o DeclaredMethods(o, declared, i + 1)
         ELSE DeclaredMethods(o, declared, i + 1)

\* a prototype owns "constructor", a constructor owns "prototype"; then the declared methods
ClassBody(o, declared) ==
    (IF o.side = "proto"
     THEN <<[name |-> "constructor", desc |-> DataDesc(Fn(Ctor(o.cls), "constructor"))]>>
     ELSE <<[name |-> "prototype", desc |-> DataDesc([type |-> "object"])]>>)
        \o DeclaredMethods(o, declared, 1)

\* the class shapes explored: method "m" declared by any set of classes; method ""
\* declared by the root class alone, a field site elsewhere; static method "m" on
\* every class, static "" a field site
InstanceM == SUBSET {<<Proto(c), "m">> : c \in Classes}
Shapes == {im \cup {<<Proto(1), "">>} \cup {<<Ctor(c), "m">> : c \in Classes} : im \in InstanceM}

----------------------------------------------------------------------------
(* Decorator applications *)

CanApply == NumApplied < MaxApplied

\* createClassDecorator: decoratorFn(...args)(target)
DecorateClass(args, c) ==
    /\ CanApply
    /\ factory.kind = "class"
    /\ store' = appendMetadata(store, factory.key, Ctor(c), compose(args, factory.composeFn), Undefined)
    /\ applied' = Record(Site(factory.key, Ctor(c), Undefined, -1), args)
    /\ UNCHANGED <<keyCounter, factory, slots, invocations, accessorVars, appendVars>>

\* createMethodDecorator: decoratorFn(...args)(target, propertyKey)
DecorateMethod(args, target, propertyKey) ==
    /\ CanApply
    /\ factory.kind = "method"
    /\ store' = appendMetadata(store, factory.key, target, compose(args, factory.composeFn), propertyKey)
    /\ applied' = Record(Site(factory.key, target, propertyKey, -1), args)
    /\ UNCHANGED <<keyCounter, factory, slots, invocations, accessorVars, appendVars>>

\* createPropertyDecorator: decoratorFn(...args)(target, propertyKey)
DecorateProperty(args, target, propertyKey) ==
    /\ CanApply
    /\ factory.kind = "property"
    /\ store' = appendMetadata(store, factory.key, target, compose(args, factory.composeFn), propertyKey)
    /\ slots' = ensureProperty(slots, target, propertyKey)
    /\ applied' = Record(Site(factory.key, target, propertyKey, -1), args)
    /\ UNCHANGED <<keyCounter, factory, invocations, accessorVars, appendVars>>

\* createParameterDecorator: decoratorFn(...args)(target, propertyKey, parameterIndex)
DecorateParameter(args, target, propertyKey, parameterIndex) ==
    /\ CanApply
    /\ factory.kind = "parameter"
    /\ store' = parameterDecorator(store, factory, args, target, propertyKey, parameterIndex)
    /\ applied' = Record(Site(factory.key, target, propertyKey, parameterIndex), args)
    /\ UNCHANGED <<keyCounter, factory, slots, invocations, accessorVars, appendVars>>

----------------------------------------------------------------------------
(* Specification: one class, method or property factory applied over the class chain *)

Init ==
    /\ \E f \in {createClassDecorator(0, "none"), createMethodDecorator(0, "none"),
                 createPropertyDecorator(0, "none")} :
          /\ factory = f
          /\ keyCounter = f.key
    /\ \E declared \in Shapes : slots = [o \in Objects |-> ClassBody(o, declared)]
    /\ store = <<>>
    /\ applied = <<>>
    /\ invocations = <<>>
    /\ instances = <<>>
    /\ weak = <<>>
    /\ assigned = <<>>
    /\ observed = NothingObserved
    /\ calls = <<>>
    /\ arrays = <<>>

Next ==
    \/ \E args \in OneArg, c \in Classes : DecorateClass(args, c)
    \/ \E args \in OneArg, o \in Objects, n \in Names : DecorateMethod(args, o, n)
    \/ \E args \in OneArg, o \in Objects, n \in Names : DecorateProperty(args, o, n)

Spec == Init /\ [][Next]_vars

----------------------------------------------------------------------------
(* factories.ts: createMethodInterceptor *)

createMethodInterceptor(counter, composeFn, interceptor) ==
    [kind |-> "methodInterceptor", key |-> generateKey(counter), composeFn |-> composeFn,
     interceptor |-> interceptor]

\* The caller's interceptor(original, metadata, context).  "wrap" returns a new anonymous
\* function that runs its own behaviour, labelled by the newest metadata value, around a
\* forwarded call of original; "identity" returns original itself.
Interceptor(which, original, metadata, context) ==
    IF which = "wrap"
    THEN [type |-> "function", name |-> "anonymous",
          tag |-> IF metadata.items = <<>> THEN Undefined ELSE metadata.items[Len(metadata.items)],
          original |-> original]
    ELSE original

IsWrapper(fn) == "original" \in DOMAIN fn

\* a call of a method value: the events it runs, in order, and what it returns
RECURSIVE Call(_)
Call(fn) ==
    IF IsWrapper(fn)
    THEN LET inner == Call(fn.original)
         IN  [trace |-> <<[ev |-> "before", tag |-> fn.tag]>> \o inner.trace
                            \o <<[ev |-> "after", tag |-> fn.tag]>>,
              result |-> inner.result]
    ELSE [trace |-> <<[ev |-> "body", tag |-> fn.name]>>, result |-> fn.body]

\* the absent third argument of a decorator applied to a field declaration
NoDescriptor == [value |-> [type |-> "nodescriptor"], get |-> UndefinedValue, set |-> UndefinedValue]

\* the descriptor the host hands to a member decorator: the own descriptor of a method
\* (or accessor) declaration, none for a field declaration
HostDescriptor(sl, target, propertyKey) ==
    LET desc == getOwnPropertyDescriptor(sl, target, propertyKey)
    IN  IF IsMethodDesc(desc) \/ desc.get.type = "function" \/ desc.set.type = "function"
        THEN desc ELSE NoDescriptor

\* faulty variant: the interceptor always receives the declared body, not the slot's current callable
methodInterceptorDecoratorStaleOriginal(st, f, args, target, propertyKey, descriptor) ==
    LET st1 == appendMetadata(st, f.key, target, compose(args, f.composeFn), propertyKey)
        original == Fn(target, propertyKey)
        metadata == getMetadataArray(st1, f.key, target, propertyKey)
        context == [target |-> target, propertyKey |-> propertyKey]
        wrapped == Interceptor(f.interceptor, original, metadata, context)
    IN  IF ~IsMethodDesc(descriptor)
        THEN [store |-> st1, descriptor |-> descriptor, invoked |-> <<>>]
        ELSE [store |-> st1,
              descriptor |-> [descriptor EXCEPT !.value = [wrapped EXCEPT !.name = original.name]],
              invoked |-> <<[target |-> target, propertyKey |-> propertyKey,
                             original |-> original, metadata |-> metadata]>>]

\* faulty variant: the metadata array is read before the new value is appended
methodInterceptorDecoratorReadsFirst(st, f, args, target, propertyKey, descriptor) ==
    LET st1 == appendMetadata(st, f.key, target, compose(args, f.composeFn), propertyKey)
        original == descriptor.value
        metadata == getMetadataArray(st, f.key, target, propertyKey)
        context == [target |-> target, propertyKey |-> propertyKey]
        wrapped == Interceptor(f.interceptor, original, metadata, context)
    IN  IF ~IsMethodDesc(descriptor)
        THEN [store |-> st1, descriptor |-> descriptor, invoked |-> <<>>]
        ELSE [store |-> st1,
              descriptor |-> [descriptor EXCEPT !.value = [wrapped EXCEPT !.name = original.name]],
              invoked |-> <<[target |-> target, propertyKey |-> propertyKey,
                             original |-> original, metadata |-> metadata]>>]

\* faulty variant: the descriptor is tested before the value is appended
methodInterceptorDecoratorChecksFirst(st, f, args, target, propertyKey, descriptor) ==
    LET st1 == appendMetadata(st, f.key, target, compose(args, f.composeFn), propertyKey)
        original == descriptor.value
        metadata == getMetadataArray(st1, f.key, target, propertyKey)
        context == [target |-> target, propertyKey |-> propertyKey]
        wrapped == Interceptor(f.interceptor, original, metadata, context)
    IN  IF ~IsMethodDesc(descriptor)
        THEN [store |-> st, descriptor |-> descriptor, invoked |-> <<>>]
        ELSE [store |-> st1,
              descriptor |-> [descriptor EXCEPT !.value = [wrapped EXCEPT !.name = original.name]],
              invoked |-> <<[target |-> target, propertyKey |-> propertyKey,
                             original |-> original, metadata |-> metadata]>>]

\* faulty variant: the replacement keeps its own name instead of the original's
methodInterceptorDecoratorKeepsName(st, f, args, target, propertyKey, descriptor) ==
    LET st1 == appendMetadata(st, f.key, target, compose(args, f.composeFn), propertyKey)
        original == descriptor.value
        metadata == getMetadataArray(st1, f.key, target, propertyKey)
        context == [target |-> target, propertyKey |-> propertyKey]
        wrapped == Interceptor(f.interceptor, original, metadata, context)
    IN  IF ~IsMethodDesc(descriptor)
        THEN [store |-> st1, descriptor |-> descriptor, invoked |-> <<>>]
        ELSE [store |-> st1,
              descriptor |-> [descriptor EXCEPT !.value = wrapped],
              invoked |-> <<[target |-> target, propertyKey |-> propertyKey,
                             original |-> original, metadata |-> metadata]>>]

\* decoratorFn(...args)(target, propertyKey, descriptor): the store afterwards, the
\* descriptor afterwards, and the interceptor invocation made (none or one)
methodInterceptorDecorator(st, f, args, target, propertyKey, descriptor) ==
    LET st1 == appendMetadata(st, f.key, target, compose(args, f.composeFn), propertyKey)
        original == descriptor.value
        metadata == getMetadataArray(st1, f.key, target, propertyKey)
        context == [target |-> target, propertyKey |-> propertyKey]
        wrapped == Interceptor(f.interceptor, original, metadata, context)
    IN  IF ~IsMethodDesc(descriptor)
        THEN [store |-> st1, descriptor |-> descriptor, invoked |-> <<>>]
        ELSE [store |-> st1,
              descriptor |-> [descriptor EXCEPT !.value = [wrapped EXCEPT !.name = original.name]],
              invoked |-> <<[target |-> target, propertyKey |-> propertyKey,
                             original |-> original, metadata |-> metadata]>>]

\* The host applies one method-interceptor decorator to a declaration: it passes the
\* declaration's descriptor and, when there is one, defines the property from it afterwards.
DecorateMethodInterceptor(args, target, propertyKey) ==
    LET descriptor == HostDescriptor(slots, target, propertyKey)
        done == methodInterceptorDecorator(store, factory, args, target, propertyKey, descriptor)
    IN  /\ CanApply
        /\ factory.kind = "methodInterceptor"
        /\ store' = done.store
        /\ slots' = IF descriptor = NoDescriptor THEN slots
                    ELSE defineProperty(slots, target, propertyKey, done.descriptor)
        /\ invocations' = invocations \o done.invoked
        /\ applied' = Record(Site(factory.key, target, propertyKey, -1), args)
        /\ UNCHANGED <<keyCounter, factory, accessorVars, appendVars>>

----------------------------------------------------------------------------
(* Specification: one method interceptor applied to the members of class 1 *)

\* class 1 may declare m as a get/set accessor pair where it does not declare method m
DeclaredAccessor(o, declared, accessor) ==
    IF accessor /\ o = Proto(1) /\ <<o, "m">> \notin declared
    THEN <<[name |-> "m", desc |-> AccessorDesc(Fn(o, "get m"), Fn(o, "set m"))]>>
    ELSE <<>>

InitIntercept ==
    /\ \E which \in {"wrap", "identity"} :
          /\ factory = createMethodInterceptor(0, "none", which)
          /\ keyCounter = factory.key
    /\ \E declared \in Shapes, accessor \in BOOLEAN :
          slots = [o \in Objects |-> ClassBody(o, declared) \o DeclaredAccessor(o, declared, accessor)]
    /\ store = <<>>
    /\ applied = <<>>
    /\ invocations = <<>>
    /\ instances = <<>>
    /\ weak = <<>>
    /\ assigned = <<>>
    /\ observed = NothingObserved
    /\ calls = <<>>
    /\ arrays = <<>>

NextIntercept ==
    \E args \in OneArg, o \in {Proto(1), Ctor(1)}, n \in Names :
        DecorateMethodInterceptor(args, o, n)

SpecIntercept == InitIntercept /\ [][NextIntercept]_vars

----------------------------------------------------------------------------
(* factories.ts: toAccessor and createPropertyInterceptor *)

\* the objects properties are read and assigned through
Instances == {Inst(1, 1), Inst(2, 1)}
Receivers == Instances \cup {Ctor(1)}

\* values assigned to a field
Values == {Str("x"), Str("y")}

\* own properties of constructors, prototypes and instances together
Heap(sl, inst) == sl @@ inst

\* the accessor pair toAccessor creates over its WeakMap number id
StoreGetter(id) == [type |-> "function", name |-> "get", store |-> id]
StoreSetter(id) == [type |-> "function", name |-> "set", store |-> id]

\* faulty variant: a receiver without an entry reads another receiver's
accessorGetAnyReceiver(wk, id, this) ==
    IF this \in DOMAIN wk[id] THEN wk[id][this]
    ELSE IF DOMAIN wk[id] # {} THEN wk[id][CHOOSE o \in DOMAIN wk[id] : TRUE]
    ELSE UndefinedValue

\* `store.get(this)`
accessorGet(wk, id, this) ==
    IF this \in DOMAIN wk[id] THEN wk[id][this] ELSE UndefinedValue

\* faulty variant: one slot shared by every receiver instead of one per `this`
accessorSetShared(wk, id, this, value) ==
    [wk EXCEPT ![id] = [o \in DOMAIN @ \cup Receivers |-> value]]

\* `store.set(this, value)`
accessorSet(wk, id, this, value) ==
    [wk EXCEPT ![id] = [o \in DOMAIN @ \cup {this} |-> IF o = this THEN value ELSE @[o]]]

\* toAccessor(target, key): the slots and WeakMaps afterwards and the descriptor returned
toAccessor(sl, wk, target, key) ==
    LET desc == getOwnPropertyDescriptor(sl, target, key)
        id == Len(wk) + 1
        seeded == IF desc # NoDesc /\ desc.value # UndefinedValue
                  THEN [o \in {target} |-> desc.value]
                  ELSE <<>>
        accessor == AccessorDesc(StoreGetter(id), StoreSetter(id))
    IN  IF desc.get.type = "function" \/ desc.set.type = "function"
        THEN [slots |-> sl, weak |-> wk, descriptor |-> AccessorDesc(desc.get, desc.set)]
        ELSE [slots |-> defineProperty(sl, target, key, accessor),
              weak |-> Append(wk, seeded),
              descriptor |-> accessor]

createPropertyInterceptor(counter, composeFn, onGet, onSet) ==
    [kind |-> "propertyInterceptor", key |-> generateKey(counter), composeFn |-> composeFn,
     onGet |-> onGet, onSet |-> onSet]

\* The caller's onGet(original, metadata, context) and onSet(original, metadata, context):
\* "wrap" returns a new function that runs its own behaviour and forwards to original
\* with the same receiver (and value); "none" stands for an absent option.
OnGet(which, original, metadata, context) ==
    [type |-> "function", name |-> "anonymous", role |-> "get",
     tag |-> IF metadata.items = <<>> THEN Undefined ELSE metadata.items[Len(metadata.items)],
     original |-> original]
OnSet(which, original, metadata, context) ==
    [type |-> "function", name |-> "anonymous", role |-> "set",
     tag |-> IF metadata.items = <<>> THEN Undefined ELSE metadata.items[Len(metadata.items)],
     original |-> original]

\* faulty variant: onSet is applied twice, so two replacement setters are stacked
propertyInterceptorDecoratorWrapsTwice(sl, st, wk, f, args, target, propertyKey) ==
    LET st1 == appendMetadata(st, f.key, target, compose(args, f.composeFn), propertyKey)
        acc == toAccessor(sl, wk, target, propertyKey)
        descriptor == acc.descriptor
        metadata == getMetadataArray(st1, f.key, target, propertyKey)
        context == [target |-> target, propertyKey |-> propertyKey]
        get1 == IF f.onGet # "none" /\ descriptor.get.type = "function"
                THEN OnGet(f.onGet, descriptor.get, metadata, context)
                ELSE descriptor.get
        set1 == IF f.onSet # "none" /\ descriptor.set.type = "function"
                THEN OnSet(f.onSet, OnSet(f.onSet, descriptor.set, metadata, context),
                           metadata, context)
                ELSE descriptor.set
    IN  IF f.onGet = "none" /\ f.onSet = "none"
        THEN [slots |-> sl, store |-> st1, weak |-> wk]
        ELSE [slots |-> defineProperty(acc.slots, target, propertyKey, AccessorDesc(get1, set1)),
              store |-> st1,
              weak |-> acc.weak]

\* decoratorFn(...args)(target, propertyKey): the slots, store and WeakMaps afterwards
propertyInterceptorDecorator(sl, st, wk, f, args, target, propertyKey) ==
    LET st1 == appendMetadata(st, f.key, target, compose(args, f.composeFn), propertyKey)
        acc == toAccessor(sl, wk, target, propertyKey)
        descriptor == acc.descriptor
        metadata == getMetadataArray(st1, f.key, target, propertyKey)
        context == [target |-> target, propertyKey |-> propertyKey]
        get1 == IF f.onGet # "none" /\ descriptor.get.type = "function"
                THEN OnGet(f.onGet, descriptor.get, metadata, context)
                ELSE descriptor.get
        set1 == IF f.onSet # "none" /\ descriptor.set.type = "function"
                THEN OnSet(f.onSet, descriptor.set, metadata, context)
                ELSE descriptor.set
    IN  IF f.onGet = "none" /\ f.onSet = "none"
        THEN [slots |-> sl, store |-> st1, weak |-> wk]
        ELSE [slots |-> defineProperty(acc.slots, target, propertyKey, AccessorDesc(get1, set1)),
              store |-> st1,
              weak |-> acc.weak]

\* the property lookup of [[Get]] and [[Set]]: the nearest descriptor on the prototype chain
RECURSIVE FindProperty(_, _, _)
FindProperty(hp, o, n) ==
    IF o.cls = 0 THEN NoDesc
    ELSE IF hasOwn(hp, o, n) THEN getOwnPropertyDescriptor(hp, o, n)
    ELSE FindProperty(hp, getPrototypeOf(o), n)

\* a call of a getter: a wrapper forwards to its original with the same receiver
RECURSIVE CallGetter(_, _, _)
CallGetter(fn, this, wk) ==
    IF IsWrapper(fn) THEN CallGetter(fn.original, this, wk)
    ELSE accessorGet(wk, fn.store, this)

\* a call of a setter: a wrapper forwards to its original with the same receiver and value
RECURSIVE CallSetter(_, _, _, _)
CallSetter(fn, this, value, wk) ==
    IF IsWrapper(fn) THEN CallSetter(fn.original, this, value, wk)
    ELSE accessorSet(wk, fn.store, this, value)

\* the replacement functions a call of a getter runs, outermost first
RECURSIVE GetterCalls(_)
GetterCalls(fn) ==
    IF IsWrapper(fn)
    THEN <<[role |-> fn.role, tag |-> fn.tag]>> \o GetterCalls(fn.original)
    ELSE <<>>

\* the replacement functions a call of a setter runs, outermost first, with the value
\* each receives
RECURSIVE SetterCalls(_, _)
SetterCalls(fn, value) ==
    IF IsWrapper(fn)
    THEN <<[role |-> fn.role, tag |-> fn.tag, value |-> value]>> \o SetterCalls(fn.original, value)
    ELSE <<>>

\* `receiver.n`
Get(hp, wk, receiver, n) ==
    LET desc == FindProperty(hp, receiver, n)
    IN  IF desc.get.type = "function" THEN CallGetter(desc.get, receiver, wk)
        ELSE IF desc = NoDesc \/ desc.set.type = "function" THEN UndefinedValue
        ELSE desc.value

\* receiver inherits from target, or is target
RECURSIVE InChain(_, _)
InChain(o, target) ==
    IF o.cls = 0 THEN FALSE
    ELSE o = target \/ InChain(getPrototypeOf(o), target)

\* The host applies one property-interceptor decorator to a field declaration of target;
\* a class is decorated when it is defined, before anything is assigned or read through
\* it or through an instance of it or of a subclass.
DecoratePropertyInterceptor(args, target, propertyKey) ==
    LET done == propertyInterceptorDecorator(slots, store, weak, factory, args, target, propertyKey)
    IN  /\ CanApply
        /\ factory.kind = "propertyInterceptor"
        /\ \A a \in DOMAIN assigned : ~InChain(a[1], target)
        /\ observed.op \in {"assign", "read"} => ~InChain(observed.receiver, target)
        /\ slots' = done.slots
        /\ store' = done.store
        /\ weak' = done.weak
        /\ applied' = Record(Site(factory.key, target, propertyKey, -1), args)
        /\ UNCHANGED <<keyCounter, factory, invocations, instances, assigned, observed, appendVars>>

\* `receiver.n = value`: an accessor on the chain takes the assignment through its setter
\* (an accessor without a setter rejects it); otherwise receiver gets an own data property
Assign(receiver, n, value) ==
    LET desc == FindProperty(Heap(slots, instances), receiver, n)
    IN  /\ assigned' = [a \in DOMAIN assigned \cup {<<receiver, n>>} |->
                            IF a = <<receiver, n>> THEN value ELSE assigned[a]]
        /\ observed' = [op |-> "assign", receiver |-> receiver, name |-> n, value |-> value,
                        trace |-> IF desc.set.type = "function"
                                  THEN SetterCalls(desc.set, value) ELSE <<>>]
        /\ IF desc.set.type = "function"
           THEN /\ weak' = CallSetter(desc.set, receiver, value, weak)
                /\ UNCHANGED <<slots, instances>>
           ELSE IF desc.get.type = "function"
           THEN UNCHANGED <<slots, instances, weak>>
           ELSE IF receiver \in Instances
           THEN /\ instances' = defineProperty(instances, receiver, n, DataDesc(value))
                /\ UNCHANGED <<slots, weak>>
           ELSE /\ slots' = defineProperty(slots, receiver, n, DataDesc(value))
                /\ UNCHANGED <<instances, weak>>
        /\ UNCHANGED <<keyCounter, factory, store, applied, invocations, appendVars>>

\* `receiver.n` read by the caller: the value read and the replacement getters run
Read(receiver, n) ==
    LET desc == FindProperty(Heap(slots, instances), receiver, n)
    IN  /\ observed' = [op |-> "read", receiver |-> receiver, name |-> n,
                        value |-> Get(Heap(slots, instances), weak, receiver, n),
                        trace |-> IF desc.get.type = "function"
                                  THEN GetterCalls(desc.get) ELSE <<>>]
        /\ UNCHANGED <<keyCounter, factory, slots, store, applied, invocations,
                       instances, weak, assigned, appendVars>>

----------------------------------------------------------------------------
(* Specification: one property interceptor applied to fields, then used through
   instances and through the class *)

\* class 1 declares a static field m, with or without an initializer; no class declares
\* an instance method m, so m is a field site on every prototype
StaticField(o, init) ==
    IF o = Ctor(1) /\ init # UndefinedValue
    THEN <<[name |-> "m", desc |-> DataDesc(init)]>>
    ELSE <<>>

InitAccessor ==
    /\ \E onGet \in {"none", "wrap"}, onSet \in {"none", "wrap"} :
          /\ factory = createPropertyInterceptor(0, "none", onGet, onSet)
          /\ keyCounter = factory.key
    /\ \E init \in {UndefinedValue, Str("x")} :
          slots = [o \in Objects |-> ClassBody(o, {}) \o StaticField(o, init)]
    /\ store = <<>>
    /\ applied = <<>>
    /\ invocations = <<>>
    /\ instances = [i \in Instances |-> <<>>]
    /\ weak = <<>>
    /\ assigned = <<>>
    /\ observed = NothingObserved
    /\ calls = <<>>
    /\ arrays = <<>>

NextAccessor ==
    \/ \E args \in OneArg, o \in {Proto(1), Proto(2), Ctor(1)} :
          DecoratePropertyInterceptor(args, o, "m")
    \/ \E r \in Receivers, v \in Values : Assign(r, "m", v)
    \/ \E r \in Receivers : Read(r, "m")

SpecAccessor == InitAccessor /\ [][NextAccessor]_vars

----------------------------------------------------------------------------
(* Specification: a factory of any kind, with or without a compose transform, applied
   to class 1 with argument lists of every length *)

\* argument lists: none, one, and two arguments
AnyArgs == {<<>>, <<"a">>, <<"a", "b">>, <<"b", "a">>}

\* class 1 declares method m, instance and static; "" is a field, instance and static
ComposeShape == {<<Proto(1), "m">>, <<Ctor(1), "m">>}

InitCompose ==
    /\ \E fn \in {"none", "fn"} :
          /\ factory \in {createClassDecorator(0, fn), createMethodDecorator(0, fn),
                          createPropertyDecorator(0, fn), createParameterDecorator(0, fn),
                          createMethodInterceptor(0, fn, "wrap"),
                          createPropertyInterceptor(0, fn, "none", "wrap")}
          /\ keyCounter = factory.key
    /\ slots = [o \in Objects |-> ClassBody(o, ComposeShape)]
    /\ store = <<>>
    /\ applied = <<>>
    /\ invocations = <<>>
    /\ instances = [i \in Instances |-> <<>>]
    /\ weak = <<>>
    /\ assigned = <<>>
    /\ observed = NothingObserved
    /\ calls = <<>>
    /\ arrays = <<>>

NextCompose ==
    \/ \E args \in AnyArgs : DecorateClass(args, 1)
    \/ \E args \in AnyArgs, o \in {Proto(1), Ctor(1)} : DecorateMethod(args, o, "m")
    \/ \E args \in AnyArgs, o \in {Proto(1), Ctor(1)} : DecorateProperty(args, o, "")
    \/ \E args \in AnyArgs, i \in Indexes : DecorateParameter(args, Ctor(1), Undefined, i)
    \/ \E args \in AnyArgs, i \in Indexes : DecorateParameter(args, Proto(1), "m", i)
    \/ \E args \in AnyArgs, o \in {Proto(1), Ctor(1)} : DecorateMethodInterceptor(args, o, "m")
    \/ \E args \in AnyArgs, o \in {Proto(1), Ctor(1)} : DecoratePropertyInterceptor(args, o, "")

SpecCompose == InitCompose /\ [][NextCompose]_vars

----------------------------------------------------------------------------
(* Specification: one parameter decorator applied to the parameters of constructors
   and of declared methods *)

\* class 1 declares methods m and "", instance and static; class 2 may redeclare m
ParameterShapes ==
    {{<<Proto(1), "m">>, <<Proto(1), "">>, <<Ctor(1), "m">>, <<Ctor(1), "">>} \cup extra :
        extra \in SUBSET {<<Proto(2), "m">>}}

\* where the host applies a parameter decorator: a constructor or a declared method
ParameterSites ==
    {<<Ctor(c), Undefined>> : c \in {1, 2}}
        \cup {<<o, n>> \in Objects \X Names : IsMethodDesc(getOwnPropertyDescriptor(slots, o, n))}

InitParams ==
    /\ factory = createParameterDecorator(0, "none")
    /\ keyCounter = factory.key
    /\ \E declared \in ParameterShapes : slots = [o \in Objects |-> ClassBody(o, declared)]
    /\ store = <<>>
    /\ applied = <<>>
    /\ invocations = <<>>
    /\ instances = <<>>
    /\ weak = <<>>
    /\ assigned = <<>>
    /\ observed = NothingObserved
    /\ calls = <<>>
    /\ arrays = <<>>

NextParams ==
    \E args \in OneArg, site \in ParameterSites, i \in Indexes :
        DecorateParameter(args, site[1], site[2], i)

SpecParams == InitParams /\ [][NextParams]_vars

----------------------------------------------------------------------------
(* Specification: several factories, each with its own key, applied to class 1 *)

\* factories created in one behaviour
MaxKeys == 2

\* a call of create*Decorator / createPropertyInterceptor: generateKey increments
\* keyCounter and the new factory is bound to the new key
CreateFactory(f) ==
    /\ keyCounter < MaxKeys
    /\ f.key = generateKey(keyCounter)
    /\ factory' = f
    /\ keyCounter' = f.key
    /\ UNCHANGED <<slots, store, applied, invocations, accessorVars, appendVars>>

\* the factories a call may create next
NextFactories ==
    {createClassDecorator(keyCounter, "none"), createMethodDecorator(keyCounter, "none"),
     createPropertyDecorator(keyCounter, "none"),
     createPropertyInterceptor(keyCounter, "none", "none", "none")}

InitKeys ==
    /\ factory \in {createClassDecorator(0, "none"), createMethodDecorator(0, "none"),
                    createPropertyDecorator(0, "none"),
                    createPropertyInterceptor(0, "none", "none", "none")}
    /\ keyCounter = factory.key
    /\ slots = [o \in Objects |-> ClassBody(o, ComposeShape)]
    /\ store = <<>>
    /\ applied = <<>>
    /\ invocations = <<>>
    /\ instances = [i \in Instances |-> <<>>]
    /\ weak = <<>>
    /\ assigned = <<>>
    /\ observed = NothingObserved
    /\ calls = <<>>
    /\ arrays = <<>>

NextKeys ==
    \/ \E f \in NextFactories : CreateFactory(f)
    \/ \E args \in OneArg : DecorateClass(args, 1)
    \/ \E args \in OneArg, o \in {Proto(1), Ctor(1)} : DecorateMethod(args, o, "m")
    \/ \E args \in OneArg, o \in {Proto(1), Ctor(1)}, n \in Names : DecorateProperty(args, o, n)
    \/ \E args \in OneArg, o \in {Proto(1), Ctor(1)} : DecoratePropertyInterceptor(args, o, "")

SpecKeys == InitKeys /\ [][NextKeys]_vars

----------------------------------------------------------------------------
(* Specification: property and parameter decorators called by hand, with and without
   the property key or the parameter index; an absent index is written -1 *)

InitMisuse ==
    /\ factory \in {createPropertyDecorator(0, "none"), createParameterDecorator(0, "none")}
    /\ keyCounter = factory.key
    /\ slots = [o \in Objects |-> ClassBody(o, ComposeShape)]
    /\ store = <<>>
    /\ applied = <<>>
    /\ invocations = <<>>
    /\ instances = [i \in Instances |-> <<>>]
    /\ weak = <<>>
    /\ assigned = <<>>
    /\ observed = NothingObserved
    /\ calls = <<>>
    /\ arrays = <<>>

NextMisuse ==
    \/ \E args \in OneArg, o \in {Proto(1), Ctor(1)}, n \in Names \cup {Undefined} :
          DecorateProperty(args, o, n)
    \/ \E args \in OneArg, i \in Indexes \cup {-1} :
          \/ DecorateParameter(args, Ctor(1), Undefined, i)
          \/ DecorateParameter(args, Proto(1), "m", i)

SpecMisuse == InitMisuse /\ [][NextMisuse]_vars

----------------------------------------------------------------------------
(* Queries as steps: what a query leaves in the store *)

\* faulty variant: the default array is written back to an unset address
storeAfterGetMetadataArrayDefines(st, key, target, propertyKey) ==
    IF getOwnMetadata(st, key, target, propertyKey).kind = "undefined"
    THEN defineMetadata(st, key, ArrayValue(<<>>), target, propertyKey)
    ELSE st

\* the store after getMetadataArray: the `?? []` default is returned, not stored
storeAfterGetMetadataArray(st, key, target, propertyKey) == st

\* the store after getParameterMap: the `?? new Map()` default is returned, not stored
storeAfterGetParameterMap(st, key, target, propertyKey) == st

\* the addresses all(key) reads for class c: the class itself, every key of the
\* prototype walk and every own key of the constructor
RECURSIVE AddressesOf(_, _)
AddressesOf(kt, i) ==
    IF i > Len(kt) THEN <<>>
    ELSE <<<<kt[i].target, kt[i].name>>>> \o AddressesOf(kt, i + 1)

AddressesRead(sl, c) ==
    <<<<Ctor(c), Undefined>>>>
        \o AddressesOf(getKeysWithTarget(sl, Proto(c)), 1)
        \o AddressesOf(WithTarget(Ctor(c), getOwnKeys(sl, Ctor(c)), 1), 1)

\* the store after all(key): each address is read with getMetadataArray (by class,
\* methods or properties) and with getParameterMap (by parameters)
RECURSIVE storeAfterReads(_, _, _, _)
storeAfterReads(st, key, reads, i) ==
    IF i > Len(reads) THEN st
    ELSE storeAfterReads(
            storeAfterGetParameterMap(
                storeAfterGetMetadataArray(st, key, reads[i][1], reads[i][2]),
                key, reads[i][1], reads[i][2]),
            key, reads, i + 1)

storeAfterAll(sl, st, c, key) == storeAfterReads(st, key, AddressesRead(sl, c), 1)

\* a key no factory has been given yet
UnusedKey == generateKey(keyCounter)

\* reflect(C).all(key), called by the program's user
Query(c, key) ==
    /\ observed' = [op |-> "query", cls |-> c, key |-> key,
                    result |-> ReflectAll(slots, store, c, key)]
    /\ store' = storeAfterAll(slots, store, c, key)
    /\ UNCHANGED <<keyCounter, factory, slots, applied, invocations, instances, weak, assigned,
                   appendVars>>

----------------------------------------------------------------------------
(* Specification: decorators of one factory applied to classes 1 and 2, and queries *)

InitQuery ==
    /\ factory \in {createClassDecorator(0, "none"), createMethodDecorator(0, "none"),
                    createPropertyDecorator(0, "none"), createParameterDecorator(0, "none")}
    /\ keyCounter = factory.key
    /\ slots = [o \in Objects |-> ClassBody(o, ComposeShape)]
    /\ store = <<>>
    /\ applied = <<>>
    /\ invocations = <<>>
    /\ instances = [i \in Instances |-> <<>>]
    /\ weak = <<>>
    /\ assigned = <<>>
    /\ observed = NothingObserved
    /\ calls = <<>>
    /\ arrays = <<>>

NextQuery ==
    \/ \E args \in OneArg, c \in {1, 2} : DecorateClass(args, c)
    \/ \E args \in OneArg, o \in {Proto(1), Ctor(1)} : DecorateMethod(args, o, "m")
    \/ \E args \in OneArg, o \in {Proto(1), Proto(2)} : DecorateProperty(args, o, "")
    \/ \E args \in OneArg, i \in Indexes : DecorateParameter(args, Ctor(1), Undefined, i)
    \/ \E args \in OneArg, i \in Indexes : DecorateParameter(args, Proto(1), "m", i)
    \/ \E c \in Classes, k \in {factory.key, UnusedKey} : Query(c, k)

SpecQuery == InitQuery /\ [][NextQuery]_vars

----------------------------------------------------------------------------
(* Specification: one method, property or parameter factory applied to the instance
   and static members of classes 1 and 2; class 3 declares nothing *)

\* classes 1 and 2 declare static method m, class 1 declares instance method m and
\* class 2 may redeclare it; "" is a field site, instance and static
StaticShapes ==
    {{<<Proto(1), "m">>, <<Ctor(1), "m">>, <<Ctor(2), "m">>} \cup extra :
        extra \in SUBSET {<<Proto(2), "m">>}}

\* the prototypes and constructors of classes 1 and 2
StaticOwners == {Proto(1), Ctor(1), Proto(2), Ctor(2)}

InitStatic ==
    /\ factory \in {createMethodDecorator(0, "none"), createPropertyDecorator(0, "none"),
                    createParameterDecorator(0, "none")}
    /\ keyCounter = factory.key
    /\ \E declared \in StaticShapes : slots = [o \in Objects |-> ClassBody(o, declared)]
    /\ store = <<>>
    /\ applied = <<>>
    /\ invocations = <<>>
    /\ instances = <<>>
    /\ weak = <<>>
    /\ assigned = <<>>
    /\ observed = NothingObserved
    /\ calls = <<>>
    /\ arrays = <<>>

NextStatic ==
    \/ \E args \in OneArg, o \in StaticOwners :
          /\ IsMethodDesc(getOwnPropertyDescriptor(slots, o, "m"))
          /\ DecorateMethod(args, o, "m")
    \/ \E args \in OneArg, o \in StaticOwners : DecorateProperty(args, o, "")
    \/ \E args \in OneArg, o \in StaticOwners, i \in Indexes :
          /\ IsMethodDesc(getOwnPropertyDescriptor(slots, o, "m"))
          /\ DecorateParameter(args, o, "m", i)

SpecStatic == InitStatic /\ [][NextStatic]_vars

----------------------------------------------------------------------------
(* metadata.ts: appendMetadata taken one statement at a time *)

\* an array held by reference: the store and a call's local `array` name the object
ArrayObject(id) == [kind |-> "arrayobject", id |-> id]

\* two calls, appending "first" and "second"
Calls == {1, 2}
CallValue(i) == IF i = 1 THEN "first" ELSE "second"

\* the owner both calls address, and the member names a call may pass
AppendTarget == Ctor(1)
AppendKeys == {Undefined, "m"}

\* faulty variant: the read never returns the stored array, always a new empty one
appendReadAlwaysFresh(st, ars, key, target, propertyKey) ==
    [array |-> Len(ars) + 1, arrays |-> Append(ars, <<>>)]

\* `const array = getMetadataArray(key, target, propertyKey)`: the stored array object
\* when the address is set, else a new empty array; the array read and the heap afterwards
appendRead(st, ars, key, target, propertyKey) ==
    LET got == getMetadataArray(st, key, target, propertyKey)
    IN  IF got.kind = "arrayobject"
        THEN [array |-> got.id, arrays |-> ars]
        ELSE [array |-> Len(ars) + 1, arrays |-> Append(ars, <<>>)]

\* `array.push(value)`
appendPush(ars, array, value) == [ars EXCEPT ![array] = Append(@, value)]

\* `defineMetadata(key, array, target, propertyKey)`
appendDefine(st, key, array, target, propertyKey) ==
    defineMetadata(st, key, ArrayObject(array), target, propertyKey)

\* call i begins: its first statement reads the array; `after` records the calls that
\* had completed by then
AppendRead(i, propertyKey) ==
    LET read == appendRead(store, arrays, factory.key, AppendTarget, propertyKey)
    IN  /\ i \notin DOMAIN calls
        /\ calls' = calls @@ (i :> [pc |-> "read", value |-> CallValue(i),
                                    propertyKey |-> propertyKey, array |-> read.array,
                                    after |-> {j \in DOMAIN calls : calls[j].pc = "done"}])
        /\ arrays' = read.arrays
        /\ UNCHANGED <<keyCounter, factory, slots, store, applied, invocations, accessorVars>>

\* call i's second statement
AppendPush(i) ==
    /\ i \in DOMAIN calls
    /\ calls[i].pc = "read"
    /\ arrays' = appendPush(arrays, calls[i].array, calls[i].value)
    /\ calls' = [calls EXCEPT ![i].pc = "pushed"]
    /\ UNCHANGED <<keyCounter, factory, slots, store, applied, invocations, accessorVars>>

\* call i's third statement, after which the call has completed
AppendDefine(i) ==
    /\ i \in DOMAIN calls
    /\ calls[i].pc = "pushed"
    /\ store' = appendDefine(store, factory.key, calls[i].array, AppendTarget, calls[i].propertyKey)
    /\ calls' = [calls EXCEPT ![i].pc = "done"]
    /\ UNCHANGED <<keyCounter, factory, slots, applied, invocations, accessorVars, arrays>>

----------------------------------------------------------------------------
(* Specification: two appendMetadata calls on initially unset addresses of class 1,
   their statements interleaved in every order *)

InitAppend ==
    /\ factory = createClassDecorator(0, "none")
    /\ keyCounter = factory.key
    /\ slots = [o \in Objects |-> ClassBody(o, ComposeShape)]
    /\ store = <<>>
    /\ applied = <<>>
    /\ invocations = <<>>
    /\ instances = <<>>
    /\ weak = <<>>
    /\ assigned = <<>>
    /\ observed = NothingObserved
    /\ calls = <<>>
    /\ arrays = <<>>

NextAppend ==
    \/ \E i \in Calls, propertyKey \in AppendKeys : AppendRead(i, propertyKey)
    \/ \E i \in Calls : AppendPush(i)
    \/ \E i \in Calls : AppendDefine(i)

SpecAppend == InitAppend /\ [][NextAppend]_vars

----------------------------------------------------------------------------
(* What the claims speak of *)

\* the elements of a sequence
Range(seq) == {seq[i] : i \in 1..Len(seq)}

\* the value one application is specified to store: composeFn(...args), else args[0]
SpecifiedValue(args) ==
    IF factory.composeFn = "fn" THEN ComposeFn(args)
    ELSE IF args = <<>> THEN Undefined ELSE Head(args)

\* the values specified for a site, in application order
Computed(site) == [i \in 1..Len(AppliedAt(site)) |-> SpecifiedValue(AppliedAt(site)[i])]

ClassSite(c) == Site(factory.key, Ctor(c), Undefined, -1)
MemberSite(o, n) == Site(factory.key, o, n, -1)
Decorated(site) == AppliedAt(site) # <<>>

RECURSIVE ItemsNamed(_, _)
ItemsNamed(items, n) ==
    IF items = <<>> THEN <<>>
    ELSE IF Head(items).name = n THEN <<Head(items)>> \o ItemsNamed(Tail(items), n)
    ELSE ItemsNamed(Tail(items), n)

\* the instance-side part of methods(key) and of properties(key) for class c
InstanceSideMethods(c) ==
    InstanceMethods(slots, store, factory.key, getKeysWithTarget(slots, Proto(c)), 1, {})
InstanceSideProperties(c) ==
    InstanceProperties(slots, store, factory.key, getKeysWithTarget(slots, Proto(c)), 1, {})

OwnMethod(o, n) == IsMethodDesc(getOwnPropertyDescriptor(slots, o, n))
OwnField(o, n) == hasOwn(slots, o, n) /\ ~OwnMethod(o, n)

\* C1: order preservation. For a class, an own method or an own property that one
\* factory's decorator was applied to, the metadata array reflection returns for that
\* target is the sequence of computed values in application order.
C1_OrderPreserved ==
    \A c \in Classes :
        /\ (factory.kind = "class" /\ Decorated(ClassSite(c)))
              => ReflectClass(store, c, factory.key)
                    = <<[kind |-> "class", name |-> "constructor",
                         metadata |-> ArrayValue(Computed(ClassSite(c))), target |-> Ctor(c)]>>
        /\ \A n \in Names :
              LET methods == ItemsNamed(ReflectMethods(slots, store, c, factory.key), n)
                  properties == ItemsNamed(ReflectProperties(slots, store, c, factory.key), n)
              IN  /\ (Decorated(MemberSite(Proto(c), n)) /\ OwnMethod(Proto(c), n))
                        => /\ methods # <<>>
                           /\ methods[1].metadata = ArrayValue(Computed(MemberSite(Proto(c), n)))
                  /\ (Decorated(MemberSite(Ctor(c), n)) /\ OwnMethod(Ctor(c), n))
                        => /\ methods # <<>>
                           /\ methods[Len(methods)].metadata = ArrayValue(Computed(MemberSite(Ctor(c), n)))
                  /\ (Decorated(MemberSite(Proto(c), n)) /\ OwnField(Proto(c), n))
                        => /\ properties # <<>>
                           /\ properties[1].metadata = ArrayValue(Computed(MemberSite(Proto(c), n)))
                  /\ (Decorated(MemberSite(Ctor(c), n)) /\ OwnField(Ctor(c), n))
                        => /\ properties # <<>>
                           /\ properties[Len(properties)].metadata = ArrayValue(Computed(MemberSite(Ctor(c), n)))

\* C1 witness: a class decorated twice, "a" first and "b" second, reflects ["a", "b"]
C1_Witness ==
    \E c \in Classes :
        /\ factory.kind = "class"
        /\ AppliedAt(ClassSite(c)) = << <<"a">>, <<"b">> >>
        /\ ReflectClass(store, c, factory.key)[1].metadata.items = <<"a", "b">>

\* C2: shadowing, most-derived wins entirely. A method decorated in an ancestor and
\* redeclared and redecorated in class c appears once on the instance side of
\* methods(key) for c, with c's own metadata array and c's own callable.
C2_MostDerivedWins ==
    \A c \in Classes, p \in Classes, n \in Names :
        (/\ p < c
         /\ OwnMethod(Proto(p), n) /\ Decorated(MemberSite(Proto(p), n))
         /\ OwnMethod(Proto(c), n) /\ Decorated(MemberSite(Proto(c), n)))
        => ItemsNamed(InstanceSideMethods(c), n)
              = <<[kind |-> "method", name |-> n,
                   metadata |-> ArrayValue(Computed(MemberSite(Proto(c), n))),
                   target |-> Fn(Proto(c), n)]>>

\* C2 witness: class 1 and class 3 both declare and decorate m, with different values
C2_Witness ==
    /\ OwnMethod(Proto(1), "m") /\ AppliedAt(MemberSite(Proto(1), "m")) = << <<"a">> >>
    /\ OwnMethod(Proto(3), "m") /\ AppliedAt(MemberSite(Proto(3), "m")) = << <<"b">> >>
    /\ Len(ItemsNamed(ReflectMethods(slots, store, 3, factory.key), "m")) = 1

\* C3 (as claimed): a class that declares its own member n without decorating it hides
\* an ancestor's decorated method n from the instance side of methods(key).
C3_RedeclarationShadows ==
    \A c \in Classes, p \in Classes, n \in Names :
        (/\ p < c
         /\ OwnMethod(Proto(p), n) /\ Decorated(MemberSite(Proto(p), n))
         /\ hasOwn(slots, Proto(c), n) /\ ~Decorated(MemberSite(Proto(c), n)))
        => ItemsNamed(InstanceSideMethods(c), n) = <<>>

\* C4: inheritance of non-shadowed names. A member decorated in an ancestor p and not
\* declared by any class between p and c appears on the instance side of methods(key)
\* (a method, with p's callable) or of properties(key) (a field) for c, with p's array.
C4_InheritedNames ==
    \A c \in Classes, p \in Classes, n \in Names :
        (/\ p < c
         /\ hasOwn(slots, Proto(p), n) /\ Decorated(MemberSite(Proto(p), n))
         /\ \A d \in Classes : (p < d /\ d <= c) => ~hasOwn(slots, Proto(d), n))
        => IF OwnMethod(Proto(p), n)
           THEN ItemsNamed(InstanceSideMethods(c), n)
                   = <<[kind |-> "method", name |-> n,
                        metadata |-> ArrayValue(Computed(MemberSite(Proto(p), n))),
                        target |-> Fn(Proto(p), n)]>>
           ELSE ItemsNamed(InstanceSideProperties(c), n)
                   = <<[kind |-> "property", name |-> n,
                        metadata |-> ArrayValue(Computed(MemberSite(Proto(p), n)))]>>

\* C4 witness: m is declared and decorated by class 1 only and reflected for class 3
C4_Witness ==
    /\ OwnMethod(Proto(1), "m") /\ Decorated(MemberSite(Proto(1), "m"))
    /\ ~hasOwn(slots, Proto(2), "m") /\ ~hasOwn(slots, Proto(3), "m")
    /\ Len(ItemsNamed(ReflectMethods(slots, store, 3, factory.key), "m")) = 1

\* C5: class metadata does not inherit. With nothing written on class c itself,
\* class(key) and getMetadataArray(key, c) are empty whatever its ancestors carry;
\* otherwise class(key) carries c's own values only.
C5_ClassOwnOnly ==
    \A c \in Classes :
        IF \A n \in Names \cup {Undefined} : ~Decorated(MemberSite(Ctor(c), n))
        THEN /\ ReflectClass(store, c, factory.key) = <<>>
             /\ getMetadataArray(store, factory.key, Ctor(c), Undefined) = ArrayValue(<<>>)
        ELSE factory.kind = "class"
                => ReflectClass(store, c, factory.key)[1].metadata = ArrayValue(Computed(ClassSite(c)))

\* C5 witness: class 2 is decorated, its subclass 3 is not, and class(key) of 3 is empty
C5_Witness ==
    /\ factory.kind = "class"
    /\ Decorated(ClassSite(2)) /\ ~Decorated(ClassSite(3))
    /\ ReflectClass(store, 2, factory.key) # <<>>
    /\ ReflectClass(store, 3, factory.key) = <<>>

RECURSIVE TagsOf(_, _)
TagsOf(trace, ev) ==
    IF trace = <<>> THEN <<>>
    ELSE IF Head(trace).ev = ev THEN <<Head(trace).tag>> \o TagsOf(Tail(trace), ev)
    ELSE TagsOf(Tail(trace), ev)

Reverse(seq) == [i \in 1..Len(seq) |-> seq[Len(seq) + 1 - i]]

SlotValue(o, n) == getOwnPropertyDescriptor(slots, o, n).value

\* C8: interceptor composition order. Calling a method that wrapping interceptors were
\* stacked on runs the last-applied interceptor's behaviour first, then each earlier
\* one, then the original body, unwinds in the opposite order, and returns the
\* original's result.
C8_CompositionOrder ==
    \A o \in Objects, n \in Names :
        (/\ factory.kind = "methodInterceptor" /\ factory.interceptor = "wrap"
         /\ OwnMethod(o, n) /\ Decorated(MemberSite(o, n)))
        => LET values == Computed(MemberSite(o, n))
               call == Call(SlotValue(o, n))
           IN  /\ TagsOf(call.trace, "before") = Reverse(values)
               /\ TagsOf(call.trace, "after") = values
               /\ Len(call.trace) = 2 * Len(values) + 1
               /\ call.trace[Len(values) + 1] = [ev |-> "body", tag |-> n]
               /\ call.result = Call(Fn(o, n)).result

\* C8 witness: "a" then "b" stacked on m; the call runs b's behaviour, a's, then the body
C8_Witness ==
    /\ factory.kind = "methodInterceptor" /\ factory.interceptor = "wrap"
    /\ AppliedAt(MemberSite(Proto(1), "m")) = << <<"a">>, <<"b">> >>
    /\ OwnMethod(Proto(1), "m")
    /\ TagsOf(Call(SlotValue(Proto(1), "m")).trace, "before") = <<"b", "a">>

\* the number of the first i invocations made for the member of invocation i
RECURSIVE InvocationOrdinal(_, _)
InvocationOrdinal(i, j) ==
    IF j = 0 THEN 0
    ELSE InvocationOrdinal(i, j - 1)
            + (IF /\ invocations[j].target = invocations[i].target
                  /\ invocations[j].propertyKey = invocations[i].propertyKey
               THEN 1 ELSE 0)

\* C9: metadata seen by a method interceptor. The n-th application to one method
\* invokes the interceptor with exactly the n values applied so far, in application
\* order, the current one last.
C9_MetadataSeen ==
    \A i \in 1..Len(invocations) :
        LET inv == invocations[i]
            nth == InvocationOrdinal(i, i)
        IN  /\ nth <= Len(AppliedAt(MemberSite(inv.target, inv.propertyKey)))
            /\ inv.metadata = ArrayValue(SubSeq(Computed(MemberSite(inv.target, inv.propertyKey)), 1, nth))

\* C9 witness: the second application to m is invoked with ["a", "b"]
C9_Witness ==
    /\ Len(invocations) = 2
    /\ invocations[1].target = invocations[2].target
    /\ invocations[1].propertyKey = invocations[2].propertyKey
    /\ invocations[1].metadata = ArrayValue(<<"a">>)
    /\ invocations[2].metadata = ArrayValue(<<"a", "b">>)

\* the property interceptor turned field n into an accessor that receiver r inherits
InterceptedField(r, n) ==
    /\ factory.kind = "propertyInterceptor"
    /\ \E o \in Objects : InChain(r, o) /\ Decorated(MemberSite(o, n))
    /\ FindProperty(Heap(slots, instances), r, n).set.type = "function"

\* C10: property accessor round-trip. For a field decorated by a property interceptor
\* with a forwarding onSet and no onGet, after assignments through an instance a read
\* of the field through that instance returns the value last assigned through it.
C10_RoundTrip ==
    (/\ factory.kind = "propertyInterceptor"
     /\ factory.onSet = "wrap" /\ factory.onGet = "none")
    => \A r \in Instances, n \in Names :
          (<<r, n>> \in DOMAIN assigned /\ \E o \in Objects : InChain(r, o) /\ Decorated(MemberSite(o, n)))
          => Get(Heap(slots, instances), weak, r, n) = assigned[<<r, n>>]

\* C10 witness: two instances share the accessor decorated on class 1; "x" was last
\* assigned through one and "y" through the other, and each reads its own value back
C10_Witness ==
    /\ factory.kind = "propertyInterceptor"
    /\ factory.onSet = "wrap" /\ factory.onGet = "none"
    /\ Decorated(MemberSite(Proto(1), "m")) /\ ~Decorated(MemberSite(Proto(2), "m"))
    /\ InterceptedField(Inst(1, 1), "m") /\ InterceptedField(Inst(2, 1), "m")
    /\ <<Inst(1, 1), "m">> \in DOMAIN assigned /\ assigned[<<Inst(1, 1), "m">>] = Str("x")
    /\ <<Inst(2, 1), "m">> \in DOMAIN assigned /\ assigned[<<Inst(2, 1), "m">>] = Str("y")
    /\ Get(Heap(slots, instances), weak, Inst(1, 1), "m") = Str("x")
    /\ Get(Heap(slots, instances), weak, Inst(2, 1), "m") = Str("y")

\* the address a site's values are kept at, and the values kept for the site in store st
AddressOf(site) == <<site[1], site[2], IF Truthy(site[3]) THEN site[3] ELSE Undefined>>
ValuesAt(st, site) ==
    IF site[4] = -1
    THEN getMetadataArray(st, site[1], site[2], site[3]).items
    ELSE MapGet(getParameterMap(st, site[1], site[2], site[3]).items, site[4])

\* the indexes other than the site's own keep their arrays
OtherIndexesKept(st, st2, site) ==
    \A i \in Indexes \ {site[4]} :
        MapGet(getParameterMap(st2, site[1], site[2], site[3]).items, i)
            = MapGet(getParameterMap(st, site[1], site[2], site[3]).items, i)

\* C6: metadata value computation. For every factory kind, one application appends
\* exactly one value to its target's array, composeFn(...args) when a compose transform
\* was supplied and args[0] otherwise, and changes nothing else in the store, so no
\* argument after the first reaches the store when there is no transform.
C6_ValueComputed ==
    [][\A site \in DOMAIN applied' :
          (site \notin DOMAIN applied \/ applied'[site] # applied[site])
          => LET args == applied'[site][Len(applied'[site])]
             IN  /\ ValuesAt(store', site) = Append(ValuesAt(store, site), SpecifiedValue(args))
                 /\ site[4] # -1 => OtherIndexesKept(store, store', site)
                 /\ \A a \in DOMAIN store' \ {AddressOf(site)} :
                        a \in DOMAIN store /\ store'[a] = store[a]]_vars

\* C6 witness: a factory without a transform was applied once with ("b", "a") and
\* the target's array is ["b"]
C6_Witness ==
    /\ factory.composeFn = "none"
    /\ \E site \in DOMAIN applied :
          /\ applied[site] = << <<"b", "a">> >>
          /\ ValuesAt(store, site) = <<"b">>

\* the items of a list with member name n and parameter index i
RECURSIVE ItemsAt(_, _, _)
ItemsAt(items, n, i) ==
    IF items = <<>> THEN <<>>
    ELSE IF Head(items).name = n /\ Head(items).parameterIndex = i
         THEN <<Head(items)>> \o ItemsAt(Tail(items), n, i)
         ELSE ItemsAt(Tail(items), n, i)

\* what parameters(k) is to hold for member n, index i when the site is (owner, pk, i)
ExpectedParameterItems(owner, pk, n, i) ==
    IF Decorated(Site(factory.key, owner, pk, i))
    THEN <<[kind |-> "parameter", name |-> n,
            metadata |-> ArrayValue(Computed(Site(factory.key, owner, pk, i))),
            parameterIndex |-> i]>>
    ELSE <<>>

NoDecoratedAncestors(c) == \A site \in DOMAIN applied : site[2].cls >= c

\* C7 (as claimed): parameter indexing. For a class c with no decorated ancestors,
\* parameters(k) holds exactly one item for every (member, index) that was decorated,
\* with that index and the values applied to it in order, and no other item: among the
\* constructor's entries, the instance methods' entries and the static methods' entries.
C7_ParameterIndexing ==
    \A c \in Classes :
        (factory.kind = "parameter" /\ NoDecoratedAncestors(c))
        => \A i \in Indexes :
              /\ ItemsAt(ConstructorParameters(store, c, factory.key), "constructor", i)
                    = ExpectedParameterItems(Ctor(c), Undefined, "constructor", i)
              /\ \A n \in Names :
                    /\ ItemsAt(InstanceParameters(store, factory.key,
                                    getKeysWithTarget(slots, Proto(c)), 1, {}), n, i)
                          = ExpectedParameterItems(Proto(c), n, n, i)
                    /\ ItemsAt(StaticParameters(store, factory.key, Ctor(c),
                                    getOwnKeys(slots, Ctor(c)), 1), n, i)
                          = ExpectedParameterItems(Ctor(c), n, n, i)

\* no decorator of key k was applied in class c or in any of its ancestors
NeverApplied(k, c) == \A site \in DOMAIN applied : ~(site[1] = k /\ site[2].cls <= c)

\* C11: empty read. For a class on which no decorator of key k was applied, in the class
\* or in any ancestor, class(k), methods(k), properties(k), parameters(k) and all(k)
\* are each the empty list; this holds for the key in use and for a key never used.
C11_EmptyRead ==
    \A c \in Classes, k \in {factory.key, UnusedKey} :
        NeverApplied(k, c)
        => /\ ReflectClass(store, c, k) = <<>>
           /\ ReflectMethods(slots, store, c, k) = <<>>
           /\ ReflectProperties(slots, store, c, k) = <<>>
           /\ ReflectParameters(slots, store, c, k) = <<>>
           /\ ReflectAll(slots, store, c, k) = <<>>

\* C11 witness: the key was applied in class 2, where all(k) has an item, and never in
\* class 1, where all(k) is empty
C11_Witness ==
    /\ ~NeverApplied(factory.key, 2) /\ NeverApplied(factory.key, 1)
    /\ ReflectAll(slots, store, 2, factory.key) # <<>>
    /\ ReflectAll(slots, store, 1, factory.key) = <<>>
    /\ ReflectAll(slots, store, 2, UnusedKey) = <<>>

\* C12 (as claimed): no empty items. Every item returned by all(k), and so by class,
\* methods, properties and parameters, carries a metadata array with at least one
\* element.
C12_NoEmptyItems ==
    \A c \in Classes :
        LET items == ReflectAll(slots, store, c, factory.key)
        IN  \A j \in 1..Len(items) :
                items[j].metadata.kind = "array" /\ Len(items[j].metadata.items) > 0

\* C13: all(k) is class(k) ++ methods(k) ++ properties(k) ++ parameters(k) on the same
\* class, in that order: the same length as the four together and the same item at
\* every position.
C13_AllIsConcatenation ==
    \A c \in Classes :
        LET all == ReflectAll(slots, store, c, factory.key)
            cls == ReflectClass(store, c, factory.key)
            methods == ReflectMethods(slots, store, c, factory.key)
            properties == ReflectProperties(slots, store, c, factory.key)
            parameters == ReflectParameters(slots, store, c, factory.key)
        IN  /\ Len(all) = Len(cls) + Len(methods) + Len(properties) + Len(parameters)
            /\ SubSeq(all, 1, Len(cls)) = cls
            /\ SubSeq(all, Len(cls) + 1, Len(cls) + Len(methods)) = methods
            /\ SubSeq(all, Len(cls) + Len(methods) + 1,
                      Len(cls) + Len(methods) + Len(properties)) = properties
            /\ SubSeq(all, Len(cls) + Len(methods) + Len(properties) + 1, Len(all)) = parameters

\* C13 witness: one property key decorates a method and a field of class 3's chain, so
\* all(k) holds a method item followed by a property item
C13_Witness ==
    LET all == ReflectAll(slots, store, 3, factory.key)
    IN  /\ factory.kind = "property"
        /\ Len(all) = 2
        /\ all[1].kind = "method" /\ all[2].kind = "property"

\* the query of reflect(C) that a factory kind's shortcut stands for
MatchingQuery(c) ==
    CASE factory.kind = "class" -> ReflectClass(store, c, factory.key)
      [] factory.kind \in {"method", "methodInterceptor"} ->
            ReflectMethods(slots, store, c, factory.key)
      [] factory.kind \in {"property", "propertyInterceptor"} ->
            ReflectProperties(slots, store, c, factory.key)
      [] factory.kind = "parameter" -> ReflectParameters(slots, store, c, factory.key)

\* the five queries of a scoped reflector equal those of reflect(C) with key k
ScopedEquals(scoped, c, k) ==
    /\ ScopedAll(slots, store, scoped) = ReflectAll(slots, store, c, k)
    /\ ScopedClass(slots, store, scoped) = ReflectClass(store, c, k)
    /\ ScopedMethods(slots, store, scoped) = ReflectMethods(slots, store, c, k)
    /\ ScopedProperties(slots, store, scoped) = ReflectProperties(slots, store, c, k)
    /\ ScopedParameters(slots, store, scoped) = ReflectParameters(slots, store, c, k)

\* C14: facade equivalence. For every class C and factory F with key k, each query of
\* createScopedReflector(C, k) and of F.reflect(C) returns what reflect(C) returns for
\* k, and F's kind-specific shortcut returns what the matching query returns.
C14_FacadeEquivalence ==
    \A c \in Classes :
        /\ ScopedEquals(createScopedReflector(c, factory.key), c, factory.key)
        /\ ScopedEquals(FactoryReflect(factory, c), c, factory.key)
        /\ FactoryShortcut(slots, store, factory, c) = MatchingQuery(c)

\* C14 witness: a property factory decorated a field of class 1; F.properties(C) and
\* the scoped properties() both return that one item
C14_Witness ==
    /\ factory.kind = "property"
    /\ Len(ReflectProperties(slots, store, 1, factory.key)) = 1
    /\ ReflectMethods(slots, store, 1, factory.key) = <<>>
    /\ FactoryShortcut(slots, store, factory, 1) = ReflectProperties(slots, store, 1, factory.key)
    /\ ScopedProperties(slots, store, FactoryReflect(factory, 1))
          = ReflectProperties(slots, store, 1, factory.key)

\* the keys minted so far
MintedKeys == 1..keyCounter

\* name and metadata of every item of a query result
RECURSIVE MetadataOf(_)
MetadataOf(items) ==
    IF items = <<>> THEN <<>>
    ELSE <<[kind |-> Head(items).kind, name |-> Head(items).name,
            metadata |-> Head(items).metadata]>> \o MetadataOf(Tail(items))

\* C15 (as claimed): key and address isolation. A factory creation mints a key no
\* other factory has; an application of F's decorator to (owner, member) leaves every
\* read of another key, or of F's key at another owner or member, as it was, and
\* leaves the metadata every query returns for another key as it was.
C15_KeyIsolation ==
    [][/\ factory' # factory => factory'.key \notin MintedKeys
       /\ \A site \in DOMAIN applied' :
             (site \notin DOMAIN applied \/ applied'[site] # applied[site])
             => /\ \A k \in MintedKeys, o \in Objects, n \in Names \cup {Undefined} :
                      <<k, o, n>> # <<site[1], site[2], site[3]>>
                      => getOwnMetadata(store', k, o, n) = getOwnMetadata(store, k, o, n)
                /\ \A k \in MintedKeys \ {site[1]}, c \in Classes :
                      MetadataOf(ReflectAll(slots', store', c, k))
                         = MetadataOf(ReflectAll(slots, store, c, k))]_vars

\* C16: method-interceptor silent degradation. An application to a declaration with no
\* descriptor, or with a descriptor whose value is not callable, appends the metadata
\* value, invokes no interceptor and leaves every member slot as it was.
C16_SilentDegradation ==
    [][\A site \in DOMAIN applied' :
          (/\ factory.kind = "methodInterceptor"
           /\ site \notin DOMAIN applied \/ applied'[site] # applied[site]
           /\ ~IsMethodDesc(HostDescriptor(slots, site[2], site[3])))
          => LET args == applied'[site][Len(applied'[site])]
             IN  /\ ValuesAt(store', site) = Append(ValuesAt(store, site), SpecifiedValue(args))
                 /\ invocations' = invocations
                 /\ slots' = slots]_vars

\* C16 witness: the interceptor was applied to the accessor pair m of class 1; the
\* value is recorded, no interceptor ran and the slot still holds the declared pair
C16_Witness ==
    /\ factory.kind = "methodInterceptor"
    /\ Decorated(MemberSite(Proto(1), "m"))
    /\ getOwnPropertyDescriptor(slots, Proto(1), "m")
          = AccessorDesc(Fn(Proto(1), "get m"), Fn(Proto(1), "set m"))
    /\ ValuesAt(store, MemberSite(Proto(1), "m")) = Computed(MemberSite(Proto(1), "m"))
    /\ invocations = <<>>

\* C17 (as claimed): decorated fields are discoverable. A field decorated through a
\* property decorator, or through a property interceptor with or without onGet/onSet,
\* is returned by properties(key) for its class with the recorded metadata, whether or
\* not the owner had a slot of that name before.
C17_FieldsDiscoverable ==
    factory.kind \in {"property", "propertyInterceptor"}
    => \A c \in Classes, n \in Names :
          \A o \in {Proto(c), Ctor(c)} :
             (Decorated(MemberSite(o, n)) /\ ~OwnMethod(o, n))
             => \E item \in Range(ItemsNamed(ReflectProperties(slots, store, c, factory.key), n)) :
                    item.metadata = ArrayValue(Computed(MemberSite(o, n)))

\* C18 (as claimed): invalid decoration site. A property decorator applied with no
\* property key, or a parameter decorator applied with no parameter index, is rejected
\* at once and leaves the metadata store as it was before the call.
C18_InvalidSiteRejected ==
    [][\A site \in DOMAIN applied' :
          (/\ site \notin DOMAIN applied \/ applied'[site] # applied[site]
           /\ \/ factory.kind = "property" /\ site[3] = Undefined
              \/ factory.kind = "parameter" /\ site[4] = -1)
          => store' = store]_vars

\* the nearest object on receiver r's chain that owns n
RECURSIVE FindOwner(_, _, _)
FindOwner(hp, o, n) ==
    IF o.cls = 0 THEN ObjectPrototype
    ELSE IF hasOwn(hp, o, n) THEN o
    ELSE FindOwner(hp, getPrototypeOf(o), n)

\* the replacement functions one access is to run: one per application that supplied
\* the callback at the accessor's owner, the last applied first
ExpectedCalls(r, n, role, callback) ==
    LET site == MemberSite(FindOwner(Heap(slots, instances), r, n), n)
        values == Reverse(Computed(site))
    IN  IF callback = "none" THEN <<>>
        ELSE [i \in 1..Len(values) |-> [role |-> role, tag |-> values[i]]]

\* C20: property interception per access. Once a property interceptor is installed,
\* an assignment through an instance runs each replacement setter exactly once, with
\* the assigned value, and no replacement getter; a read runs each replacement getter
\* exactly once and no replacement setter.
C20_PerAccess ==
    (/\ observed.op \in {"assign", "read"}
     /\ observed.receiver \in Instances
     /\ factory.kind = "propertyInterceptor"
     /\ InterceptedField(observed.receiver, observed.name))
    => IF observed.op = "assign"
       THEN observed.trace
               = [i \in 1..Len(ExpectedCalls(observed.receiver, observed.name, "set", factory.onSet)) |->
                    [role |-> "set",
                     tag |-> ExpectedCalls(observed.receiver, observed.name, "set", factory.onSet)[i].tag,
                     value |-> observed.value]]
       ELSE observed.trace = ExpectedCalls(observed.receiver, observed.name, "get", factory.onGet)

\* C20 witness: two applications with onSet are stacked on class 1's field; an
\* assignment of "y" through an instance ran both replacement setters once, "b" first
C20_Witness ==
    /\ factory.kind = "propertyInterceptor" /\ factory.onSet = "wrap"
    /\ AppliedAt(MemberSite(Proto(1), "m")) = << <<"a">>, <<"b">> >>
    /\ observed.op = "assign" /\ observed.receiver = Inst(1, 1)
    /\ observed.trace = <<[role |-> "set", tag |-> "b", value |-> Str("y")],
                          [role |-> "set", tag |-> "a", value |-> Str("y")]>>

\* C19: queries are reads. A step that applies no decorator, that is a query, leaves
\* the metadata store and every member slot as they were; an address that was unset
\* before the query is unset after it.
C19_QueriesAreReads ==
    [][applied' = applied => (store' = store /\ slots' = slots)]_vars

\* C19 witness: class 1 is decorated, class 2 was queried with the result empty, and
\* nothing is stored for class 2 or its own members
C19_Witness ==
    /\ store # <<>>
    /\ observed.op = "query" /\ observed.cls = 2 /\ observed.key = factory.key
    /\ observed.result = <<>>
    /\ \A a \in DOMAIN store : a[2].cls = 1
    /\ getMetadataArray(store, factory.key, Ctor(2), Undefined) = ArrayValue(<<>>)
    /\ getParameterMap(store, factory.key, Proto(2), "m") = MapValue(<<>>)

\* C21 (as claimed): class-item kind separation. For a key written only by
\* parameter-decorator applications, constructor parameters included, class(key) is
\* empty, all(key) holds parameter items only, and every item class(key) returns
\* carries an ordered sequence of class-level values, never a parameter-index map.
C21_ClassKindSeparation ==
    factory.kind = "parameter"
    => \A c \in Classes :
          LET cls == ReflectClass(store, c, factory.key)
              all == ReflectAll(slots, store, c, factory.key)
          IN  /\ cls = <<>>
              /\ \A j \in 1..Len(all) : all[j].kind = "parameter"
              /\ \A j \in 1..Len(cls) : ~IsMap(cls[j].metadata)

\* C22: per-category independent walk. When the nearest level declaring n is class c,
\* as a data member with non-empty metadata for the key, and p is the nearest ancestor
\* declaring n as a callable with non-empty metadata for the same key, properties(k)
\* of c returns n with c's array and methods(k) of c returns n with p's array and p's
\* callable: the data member does not hide the ancestor's method.
C22_IndependentWalk ==
    \A c \in Classes, p \in Classes, n \in Names :
        (/\ p < c
         /\ OwnField(Proto(c), n) /\ Decorated(MemberSite(Proto(c), n))
         /\ OwnMethod(Proto(p), n) /\ Decorated(MemberSite(Proto(p), n))
         /\ \A d \in Classes :
               (p < d /\ d < c) => ~(OwnMethod(Proto(d), n) /\ Decorated(MemberSite(Proto(d), n))))
        => /\ ItemsNamed(InstanceSideProperties(c), n)
                 = <<[kind |-> "property", name |-> n,
                      metadata |-> ArrayValue(Computed(MemberSite(Proto(c), n)))]>>
           /\ ItemsNamed(InstanceSideMethods(c), n)
                 = <<[kind |-> "method", name |-> n,
                      metadata |-> ArrayValue(Computed(MemberSite(Proto(p), n))),
                      target |-> Fn(Proto(p), n)]>>

\* C22 witness: class 2 holds m as a decorated field, class 1 declares and decorates
\* method m; for class 2 both properties(k) and methods(k) return m
C22_Witness ==
    /\ OwnField(Proto(2), "m") /\ AppliedAt(MemberSite(Proto(2), "m")) = << <<"b">> >>
    /\ OwnMethod(Proto(1), "m") /\ AppliedAt(MemberSite(Proto(1), "m")) = << <<"a">> >>
    /\ Len(ItemsNamed(InstanceSideProperties(2), "m")) = 1
    /\ ItemsNamed(InstanceSideMethods(2), "m")[1].metadata = ArrayValue(<<"a">>)

\* the items a query is to add for the static member n of class c, from what was
\* applied to (C, n) itself
ExpectedStaticItems(c, n) ==
    LET site == MemberSite(Ctor(c), n)
    IN  CASE factory.kind = "method" /\ OwnMethod(Ctor(c), n) /\ Decorated(site) ->
                <<[kind |-> "method", name |-> n, metadata |-> ArrayValue(Computed(site)),
                   target |-> Fn(Ctor(c), n)]>>
          [] factory.kind = "property" /\ OwnField(Ctor(c), n) /\ Decorated(site) ->
                <<[kind |-> "property", name |-> n, metadata |-> ArrayValue(Computed(site))]>>
          [] OTHER -> <<>>

\* the instance-side part of parameters(key) for class c, after the constructor's entries
InstanceSideParameters(c) ==
    ConstructorParameters(store, c, factory.key)
        \o InstanceParameters(store, factory.key, getKeysWithTarget(slots, Proto(c)), 1, {})

\* what the matching query returns before its static-side items
InstanceSide(c) ==
    CASE factory.kind = "method" -> InstanceSideMethods(c)
      [] factory.kind = "property" -> InstanceSideProperties(c)
      [] factory.kind = "parameter" -> InstanceSideParameters(c)

\* C23: static members. The matching query of class c returns its instance-side items
\* followed by the items of c's own decorated static members and nothing else: an
\* ancestor's decorated static member adds no item, and a static member is returned
\* whether or not an instance member of the same name was returned before it.
C23_StaticOwnOnly ==
    factory.kind \in {"method", "property", "parameter"}
    => \A c \in Classes :
          LET items == MatchingQuery(c)
              inst == InstanceSide(c)
              static == SubSeq(items, Len(inst) + 1, Len(items))
          IN  /\ Len(items) >= Len(inst)
              /\ SubSeq(items, 1, Len(inst)) = inst
              /\ IF factory.kind = "parameter"
                 THEN /\ \A j \in 1..Len(static) : static[j].name = "m"
                      /\ \A i \in Indexes :
                            ItemsAt(static, "m", i) = ExpectedParameterItems(Ctor(c), "m", "m", i)
                 ELSE static = ExpectedStaticItems(c, "m") \o ExpectedStaticItems(c, "")

\* C23 witness: instance m and static m of class 1 are both decorated; methods(k) of
\* class 1 returns two items named m, the static one last, and methods(k) of class 2,
\* which inherits the instance m, returns one item and nothing for class 1's static m
C23_Witness ==
    /\ factory.kind = "method"
    /\ Decorated(MemberSite(Proto(1), "m")) /\ Decorated(MemberSite(Ctor(1), "m"))
    /\ ~OwnMethod(Proto(2), "m")
    /\ Len(ItemsNamed(ReflectMethods(slots, store, 1, factory.key), "m")) = 2
    /\ ReflectMethods(slots, store, 1, factory.key)[2].target = Fn(Ctor(1), "m")
    /\ Len(ReflectMethods(slots, store, 2, factory.key)) = 1
    /\ ReflectMethods(slots, store, 2, factory.key)[1].target = Fn(Proto(1), "m")

\* some parameter of member n of owner o was decorated
AnyIndexDecorated(o, n) == \E i \in Indexes : Decorated(Site(factory.key, o, n, i))

\* class c and an ancestor both declare method n and both had parameters of n
\* decorated: parameters(k) of c holds c's own entries for n and no other
ChildEntriesOnly(c) ==
    \A p \in Classes, n \in Names :
        (/\ p < c
         /\ OwnMethod(Proto(c), n) /\ AnyIndexDecorated(Proto(c), n)
         /\ OwnMethod(Proto(p), n) /\ AnyIndexDecorated(Proto(p), n))
        => \A i \in Indexes :
              ItemsAt(InstanceParameters(store, factory.key,
                            getKeysWithTarget(slots, Proto(c)), 1, {}), n, i)
                 = ExpectedParameterItems(Proto(c), n, n, i)

\* C24: parameter shadowing. When class c and an ancestor both declare method n and
\* both had parameters of n decorated, parameters(k) of c holds only c's entries for n,
\* with no ancestor index, decorated by c or not; and an application to any owner other
\* than c's constructor leaves the constructor-parameter entries of c as they were.
C24_ParameterShadowing ==
    /\ [](factory.kind = "parameter" => \A c \in Classes : ChildEntriesOnly(c))
    /\ [][factory.kind = "parameter"
          => \A c \in Classes :
                \A site \in DOMAIN applied' :
                   (/\ site \notin DOMAIN applied \/ applied'[site] # applied[site]
                    /\ site[2] # Ctor(c))
                   => ConstructorParameters(store', c, factory.key)
                         = ConstructorParameters(store, c, factory.key)]_vars

\* C24 witness: class 2 redeclares m and decorated its parameter 0, class 1 decorated
\* parameter 1 of its m; parameters(k) of class 2 holds the one entry of class 2
C24_Witness ==
    /\ factory.kind = "parameter"
    /\ OwnMethod(Proto(2), "m")
    /\ AppliedAt(Site(factory.key, Proto(2), "m", 0)) = << <<"b">> >>
    /\ AppliedAt(Site(factory.key, Proto(1), "m", 1)) = << <<"a">> >>
    /\ ReflectParameters(slots, store, 2, factory.key)
          = <<[kind |-> "parameter", name |-> "m", metadata |-> ArrayValue(<<"b">>),
               parameterIndex |-> 0]>>

\* the callable the slot (o, n) is to hold after the recorded applications: with a
\* wrapping interceptor one replacement per applied value, the last applied outermost,
\* each named as the declared method; with an interceptor that returns its original,
\* the declared method
RECURSIVE Stacked(_, _, _, _)
Stacked(o, n, values, j) ==
    IF j = 0 \/ factory.interceptor # "wrap" THEN Fn(o, n)
    ELSE [type |-> "function", name |-> n, tag |-> values[j],
          original |-> Stacked(o, n, values, j - 1)]

\* every item of a list has the callable now held in slot (o, item.name) as its target,
\* and that callable is the outermost replacement, named as the declared method
TargetsAreSlotsOf(items, o) ==
    \A j \in 1..Len(items) :
        LET n == items[j].name
            values == Computed(MemberSite(o, n))
        IN  /\ items[j].target = SlotValue(o, n)
            /\ items[j].target = Stacked(o, n, values, Len(values))
            /\ items[j].target.name = Fn(o, n).name
            /\ factory.interceptor = "wrap" => items[j].target # Fn(o, n)

\* C25: method item target after interception. Every item of methods(k) has as target
\* the callable currently held in the slot of the level that contributed it (class 1's
\* prototype for an instance-side item, the queried class's constructor for a static
\* one); after any number of interceptor applications that is the outermost
\* replacement, not the declared method, and its name is the declared method's name.
C25_TargetIsCurrentSlot ==
    factory.kind = "methodInterceptor"
    => \A c \in Classes :
          /\ TargetsAreSlotsOf(InstanceSideMethods(c), Proto(1))
          /\ TargetsAreSlotsOf(
                StaticMethods(slots, store, factory.key, Ctor(c), getOwnKeys(slots, Ctor(c)), 1),
                Ctor(c))

\* C25 witness: m of class 1 was intercepted with "a" and then "b"; the item methods(k)
\* returns for subclass 2 has the replacement made for "b" as target, named m, around
\* the replacement made for "a"
C25_Witness ==
    /\ factory.kind = "methodInterceptor" /\ factory.interceptor = "wrap"
    /\ AppliedAt(MemberSite(Proto(1), "m")) = << <<"a">>, <<"b">> >>
    /\ Len(ReflectMethods(slots, store, 2, factory.key)) = 1
    /\ ReflectMethods(slots, store, 2, factory.key)[1].target.tag = "b"
    /\ ReflectMethods(slots, store, 2, factory.key)[1].target.name = "m"
    /\ ReflectMethods(slots, store, 2, factory.key)[1].target.original.tag = "a"

\* the objects a field of a class-1 owner is read through: the owners, the subclass
\* constructor and the instances
Readers == Objects \cup Instances

\* C26 (as claimed): value preservation on accessor conversion. When an application
\* converts a plain stored value v, v defined, of the owner into a get/set pair, every
\* read that returned v before the conversion returns v after it: a read on the owner
\* and a read through an object that inherits from the owner and has no own property
\* of that name.
C26_ValuePreserved ==
    [][\A site \in DOMAIN applied' :
          (/\ factory.kind = "propertyInterceptor"
           /\ site \notin DOMAIN applied \/ applied'[site] # applied[site]
           /\ getOwnPropertyDescriptor(slots, site[2], site[3]).value.type = "string"
           /\ getOwnPropertyDescriptor(slots', site[2], site[3]).get.type = "function")
          => \A r \in Readers :
                (/\ InChain(r, site[2])
                 /\ Get(Heap(slots, instances), weak, r, site[3])
                       = getOwnPropertyDescriptor(slots, site[2], site[3]).value)
                => Get(Heap(slots', instances'), weak', r, site[3])
                      = getOwnPropertyDescriptor(slots, site[2], site[3]).value]_vars

\* the array object invocation inv of the interceptor received: the one stored at the
\* decorated member's address after the append
ReceivedArray(inv) == ArrayRef(factory.key, inv.target, inv.propertyKey)

\* C27 (as claimed): interceptor metadata snapshot. The array an interceptor invocation
\* received keeps the contents it had when it was handed over, whatever is applied to
\* the same member afterwards.
C27_MetadataSnapshot ==
    \A i \in 1..Len(invocations) :
        ContentsNow(store, ReceivedArray(invocations[i])) = invocations[i].metadata

\* what a read of field n through instance r is to return: the value last assigned
\* through r, nothing when r was never assigned
LastAssigned(r, n) ==
    IF <<r, n>> \in DOMAIN assigned THEN assigned[<<r, n>>] ELSE UndefinedValue

\* C28: per-instance isolation of an intercepted field. Once a plain field is an
\* accessor, in every state and so after any interleaving of assignments, a read
\* through instance A returns the value last assigned through A, or nothing when A was
\* never assigned, whatever was assigned through any other receiver.
C28_InstanceIsolation ==
    \A a \in Instances :
        InterceptedField(a, "m")
        => Get(Heap(slots, instances), weak, a, "m") = LastAssigned(a, "m")

\* C28 witness: both instances share class 1's accessor; "x" was assigned through one,
\* nothing through the other; the first reads "x" and the second reads nothing
C28_Witness ==
    /\ Decorated(MemberSite(Proto(1), "m")) /\ ~Decorated(MemberSite(Proto(2), "m"))
    /\ InterceptedField(Inst(1, 1), "m") /\ InterceptedField(Inst(2, 1), "m")
    /\ observed.op = "assign" /\ observed.receiver = Inst(2, 1)
    /\ observed.value = Str("x")
    /\ <<Inst(1, 1), "m">> \notin DOMAIN assigned
    /\ Get(Heap(slots, instances), weak, Inst(2, 1), "m") = Str("x")
    /\ Get(Heap(slots, instances), weak, Inst(1, 1), "m") = UndefinedValue

\* C29 (as claimed): member addressing for every member name. What was appended with
\* member name n at owner o, for every n including the empty string, is what a read of
\* (o, n) returns, and a read of the same key and owner without a member name returns
\* only what was appended without one.
C29_MemberAddressing ==
    \A o \in Objects, n \in Names \cup {Undefined} :
        getMetadataArray(store, factory.key, o, n) = ArrayValue(Computed(MemberSite(o, n)))

\* the contents of the array stored at (key, AppendTarget, propertyKey)
StoredContents(propertyKey) ==
    LET v == getOwnMetadata(store, factory.key, AppendTarget, propertyKey)
    IN  IF v.kind = "arrayobject" THEN arrays[v.id] ELSE <<>>

\* both calls have completed, on the same address
BothDoneOn(i, j) ==
    /\ i \in DOMAIN calls /\ j \in DOMAIN calls /\ i # j
    /\ calls[i].pc = "done" /\ calls[j].pc = "done"
    /\ calls[i].propertyKey = calls[j].propertyKey

\* C30: appendArray is not atomic. When one call on an initially unset address runs to
\* completion before the other begins, the stored array holds both values in call
\* order; interleaved statement by statement, the two calls can leave a stored array
\* that lacks one of the values (the witness).
C30_SerialAppendsKeepBoth ==
    \A i \in Calls, j \in Calls :
        (BothDoneOn(i, j) /\ i \in calls[j].after)
        => StoredContents(calls[j].propertyKey) = <<CallValue(i), CallValue(j)>>

\* C30 witness: both calls read the unset address before either defined; both have
\* completed and the stored array holds "second" alone
C30_Witness ==
    /\ BothDoneOn(1, 2)
    /\ calls[1].after = {} /\ calls[2].after = {}
    /\ StoredContents(calls[1].propertyKey) = <<"second">>

====
